---- MODULE Spec2Model ----
(***************************************************************************)
(* Model of the tour-finder agent:                                         *)
(*   - the location resolver (virtual_sales_agent/tools.py:                *)
(*     normalize_and_transliterate, find_location_comprehensive),          *)
(*   - the tour search cascade (the final definition of search_tours),     *)
(*   - the conversation manager shared by the webhook server and the bot.  *)
(*   - the location cache, the webhook server and the agent graph,        *)
(*   - get_tour_recommendations, the single-page UI (str_main.py) and the  *)
(*     Telegram bot's contact dialogue (bot.py).                           *)
(* Strings are sequences of one-character strings, so that lower(),        *)
(* strip() and the substring test `in` are computed, not assumed.          *)
(***************************************************************************)
EXTENDS Integers, Sequences, FiniteSets, TLC

VARIABLES
    destination_place,  \* argument of search_tours / find_location_comprehensive
    budget_max,         \* argument of search_tours (None or an integer)
    duration_days,      \* argument of search_tours (None or an integer)
    locations,          \* what get_locations_data() returns (the cached list)
    hash_seed,          \* iteration order of Python's set of strings in this process
    location_result,    \* result of find_location_comprehensive, None before the call
    variants,           \* what normalize_and_transliterate returned for the query
    pc,                 \* position inside search_tours
    idx,                \* loop index of the strategy being executed
    tours_found,        \* local tours_found of search_tours
    all_country_tours,  \* local accumulator of strategies 3 and 5
    search_strategy,    \* local search_strategy of search_tours
    searched_location,  \* local searched_location of search_tours
    cities_with_tours,  \* local cities_with_tours of _build_intelligent_suggestions
    requests,           \* log of the GET /tours requests issued: <<strategy, id>>
    failures,           \* history: for each request, whether the API failed on it
    responses,          \* log of what each request returned (its tour list)
    result,             \* the dictionary search_tours returns, None before
    conversation_states,\* main.py conversation_states / bot.py conversation_contexts
    issued_uuids,       \* the uuid4 values drawn so far
    clock,              \* datetime.now(), as a counter
    returned,           \* history: conversation id -> the thread ids returned for it, in order
    locations_cache,    \* tools.py _locations_cache
    origin_locations_cache, \* tools.py _origin_locations_cache
    cache_calls,        \* history: the calls of the two cached getters, in order
    webhook_data,       \* the payload of the last POST to /webhook/chatwoot
    http_response,      \* the response to it
    handled,            \* number of webhook requests handled
    agent_calls,        \* history: the graph.stream calls, <<conversation id, text>>
    sent_messages,      \* history: the ChatwootAPI.send_message calls
    req_pc,             \* request -> position of its thread inside process_message
    req_conv,           \* request -> the conversation id of its payload
    req_thread,         \* request -> the thread id get_config returned to it
    req_logged,         \* history: request -> the entries its add_message calls appended
    node,               \* the node of the agent graph that runs next
    graph_messages,     \* state["messages"] of the agent graph
    local_messages,     \* state["messages"] local to Assistant.__call__
    invocations,        \* history: the results of the model in the current assistant step
    path,               \* history: the nodes that ran, <<node, its message has tool calls>>
    last_tool_calls,    \* the tool_calls list of the last assistant message of the state
    tool_node_log,      \* history: each run of the tools node, its tool calls and its update
    interests,          \* argument of get_tour_recommendations
    budget_range,       \* argument of get_tour_recommendations (None or a string)
    set_order,          \* iteration order of set(recommended_places) in this process
    unique_places,      \* local unique_places of get_tour_recommendations
    all_recommended_tours, \* local all_recommended_tours
    searched_places,    \* history: the destination_place of each search_tours call
    recommendation,     \* the dictionary get_tour_recommendations returns, None before
    rec_pc,             \* position inside get_tour_recommendations
    session_state,      \* str_main.py st.session_state: key -> value, for the keys present
    ui_pc,              \* position of the script run of str_main.py main()
    rerun_by,           \* what made the script run again: "none", "new_consultation", "quick_start"
    previous_thread_id, \* history: the thread id the last 'Start New Consultation' replaced
    fsm_state,          \* bot.py: the FSM state of the Telegram user
    bot_log             \* history: the updates the bot handled, with what each handler did

vars == <<destination_place, budget_max, duration_days, locations, hash_seed,
          location_result, variants, pc, idx, tours_found, all_country_tours,
          search_strategy, searched_location, cities_with_tours, requests, responses, failures,
          result,
          conversation_states, issued_uuids, clock, returned,
          locations_cache, origin_locations_cache, cache_calls,
          webhook_data, http_response, handled, agent_calls, sent_messages,
          req_pc, req_conv, req_thread, req_logged,
          node, graph_messages, local_messages, invocations, path,
          last_tool_calls, tool_node_log,
          interests, budget_range, set_order, unique_places, all_recommended_tours,
          searched_places, recommendation, rec_pc,
          session_state, ui_pc, rerun_by, previous_thread_id,
          fsm_state, bot_log>>

searchVars == <<destination_place, budget_max, duration_days, locations, hash_seed,
                location_result, variants, pc, idx, tours_found, all_country_tours,
                search_strategy, searched_location, cities_with_tours, requests, responses,
                failures, result>>

convVars == <<conversation_states, issued_uuids, clock, returned>>

cacheVars == <<locations_cache, origin_locations_cache, cache_calls>>

webVars == <<webhook_data, http_response, handled, agent_calls, sent_messages>>

raceVars == <<req_pc, req_conv, req_thread, req_logged>>

graphVars == <<node, graph_messages, local_messages, invocations, path,
               last_tool_calls, tool_node_log>>

recVars == <<interests, budget_range, set_order, unique_places, all_recommended_tours,
             searched_places, recommendation, rec_pc>>

uiVars == <<session_state, ui_pc, rerun_by, previous_thread_id>>

botVars == <<fsm_state, bot_log>>

lateVars == <<recVars, uiVars, botVars>>

\* Everything outside search_tours and the conversation manager
auxVars == <<cacheVars, webVars, raceVars, graphVars, lateVars>>

None == [type |-> "none"]

Min(a, b) == IF a < b THEN a ELSE b

Abs(n) == IF n < 0 THEN 0 - n ELSE n

(***************************************************************************)
(* Strings                                                                 *)
(***************************************************************************)

\* str.lower() on one character
LowerChar(c) ==
    CASE c = "A" -> "a"
      [] c = "B" -> "b"
      [] OTHER -> c

\* str.lower()
Lower(s) == [i \in 1..Len(s) |-> LowerChar(s[i])]

RECURSIVE LStrip(_)
LStrip(s) == IF s # <<>> /\ Head(s) = " " THEN LStrip(Tail(s)) ELSE s

RECURSIVE RStrip(_)
RStrip(s) == IF s # <<>> /\ s[Len(s)] = " " THEN RStrip(SubSeq(s, 1, Len(s) - 1)) ELSE s

\* str.strip()
Strip(s) == RStrip(LStrip(s))

\* Python's `needle in hay` on strings (the empty string is in every string)
Contains(hay, needle) ==
    \E i \in 0..(Len(hay) - Len(needle)) :
        SubSeq(hay, i + 1, i + Len(needle)) = needle

\* A number identifying a string; only used to order the elements of a set.
CharCode(c) ==
    CASE c = " " -> 1
      [] c = "a" -> 2
      [] c = "b" -> 3
      [] c = "A" -> 4
      [] c = "B" -> 5
      [] c = "x" -> 6
      [] OTHER -> 7

RECURSIVE StrCode(_)
StrCode(s) == IF s = <<>> THEN 0 ELSE StrCode(SubSeq(s, 1, Len(s) - 1)) * 8 + CharCode(s[Len(s)])

\* list(set(...)): the elements of S in the order this process's string hash
\* enumerates them; two processes may differ.
RECURSIVE SetToList(_, _)
SetToList(S, seed) ==
    IF S = {} THEN <<>>
    ELSE LET first == IF seed = "asc"
                      THEN CHOOSE x \in S : \A y \in S : StrCode(x) <= StrCode(y)
                      ELSE CHOOSE x \in S : \A y \in S : StrCode(x) >= StrCode(y)
         IN <<first>> \o SetToList(S \ {first}, seed)

(***************************************************************************)
(* Transliteration                                                         *)
(***************************************************************************)

\* The table, in insertion order, as <<latin key, cyrillic value>>.  Like the
\* source table it maps several Latin spellings to one Cyrillic value
\* ('toshkent' and 'tashkent'), and no value is itself a key.
TRANSLITERATION_MAP ==
    << << <<"a", "b">>, <<"x">> >>,
       << <<"b", "a">>, <<"x">> >>,
       << <<"b", "b">>, <<"x", "x">> >> >>

InMap(k) == \E i \in 1..Len(TRANSLITERATION_MAP) : TRANSLITERATION_MAP[i][1] = k

MapGet(k) ==
    LET i == CHOOSE j \in 1..Len(TRANSLITERATION_MAP) : TRANSLITERATION_MAP[j][1] = k
    IN TRANSLITERATION_MAP[i][2]

\* reverse_map = {v: k for k, v in TRANSLITERATION_MAP.items()}: the last key wins
InReverseMap(v) == \E i \in 1..Len(TRANSLITERATION_MAP) : TRANSLITERATION_MAP[i][2] = v

ReverseGet(v) ==
    LET i == CHOOSE j \in 1..Len(TRANSLITERATION_MAP) :
                 /\ TRANSLITERATION_MAP[j][2] = v
                 /\ \A l \in (j + 1)..Len(TRANSLITERATION_MAP) : TRANSLITERATION_MAP[l][2] # v
    IN TRANSLITERATION_MAP[i][1]

\* Faulty variant of VariantSet: the reverse lookup is missing
VariantSetNoReverse(name) ==
    LET normalized == Strip(Lower(name))
    IN {normalized}
       \cup (IF InMap(normalized) THEN {MapGet(normalized)} ELSE {})

\* The set that normalize_and_transliterate builds before list(set(...))
VariantSet(name) ==
    LET normalized == Strip(Lower(name))
    IN {normalized}
       \cup (IF InMap(normalized) THEN {MapGet(normalized)} ELSE {})
       \cup (IF InReverseMap(normalized) THEN {ReverseGet(normalized)} ELSE {})

normalize_and_transliterate(name, seed) == SetToList(VariantSet(name), seed)

\* search_variants of find_location_comprehensive: the function returns before
\* the call when the location list is empty
SearchVariants(location_name, locs, seed) ==
    IF locs = <<>> THEN <<>> ELSE normalize_and_transliterate(location_name, seed)

(***************************************************************************)
(* Location resolution                                                     *)
(***************************************************************************)

\* city_info of find_location_comprehensive
CityInfo(city, country) ==
    [id |-> city.id, name |-> city.name, type |-> "city",
     country |-> country.name, country_id |-> country.id]

\* country_info of find_location_comprehensive; its "cities" list is filled
\* while the children are processed and is complete when the function returns
CountryInfo(country) ==
    [id |-> country.id, name |-> country.name, type |-> "country",
     cities |-> [j \in 1..Len(country.children) |-> CityInfo(country.children[j], country)]]

\* The pairs (search_variant, location_variant) in the order of the nested loops
VariantPairs(search_variants, loc_variants) ==
    [k \in 1..(Len(search_variants) * Len(loc_variants)) |->
        << search_variants[((k - 1) \div Len(loc_variants)) + 1],
           loc_variants[((k - 1) % Len(loc_variants)) + 1] >>]

\* Faulty variant of CountryCheck: an earlier exact match is kept
CountryCheckFirstWins(acc, search_variant, country_variant, country_info) ==
    IF search_variant = country_variant
    THEN IF acc.exact_match = None
         THEN [acc EXCEPT !.country_match = country_info, !.exact_match = country_info]
         ELSE acc
    ELSE IF Contains(country_variant, search_variant) \/ Contains(search_variant, country_variant)
         THEN IF acc.country_match = None
              THEN [acc EXCEPT !.country_match = country_info]
              ELSE acc
         ELSE acc

\* Faulty variant of CountryCheck: a containment match replaces an earlier match
CountryCheckPartialOverrides(acc, search_variant, country_variant, country_info) ==
    IF search_variant = country_variant
    THEN [acc EXCEPT !.country_match = country_info, !.exact_match = country_info]
    ELSE IF Contains(country_variant, search_variant) \/ Contains(search_variant, country_variant)
         THEN [acc EXCEPT !.country_match = country_info]
         ELSE acc

\* Body of the country loop for one pair of variants
CountryCheck(acc, search_variant, country_variant, country_info) ==
    IF search_variant = country_variant
    THEN [acc EXCEPT !.country_match = country_info, !.exact_match = country_info]
    ELSE IF Contains(country_variant, search_variant) \/ Contains(search_variant, country_variant)
         THEN IF acc.country_match = None
              THEN [acc EXCEPT !.country_match = country_info]
              ELSE acc
         ELSE acc

\* Faulty variant of CityCheck: an earlier exact match is kept
CityCheckFirstWins(acc, search_variant, city_variant, city_info) ==
    IF search_variant = city_variant
    THEN [acc EXCEPT !.exact_match = IF @ = None THEN city_info ELSE @,
                     !.city_matches = Append(@, city_info)]
    ELSE IF Contains(city_variant, search_variant) \/ Contains(search_variant, city_variant)
         THEN [acc EXCEPT !.city_matches = Append(@, city_info)]
         ELSE acc

\* Body of the city loop for one pair of variants
CityCheck(acc, search_variant, city_variant, city_info) ==
    IF search_variant = city_variant
    THEN [acc EXCEPT !.exact_match = city_info,
                     !.city_matches = Append(@, city_info)]
    ELSE IF Contains(city_variant, search_variant) \/ Contains(search_variant, city_variant)
         THEN [acc EXCEPT !.city_matches = Append(@, city_info)]
         ELSE acc

RECURSIVE CountryPairs(_, _, _, _)
CountryPairs(acc, pairs, k, country_info) ==
    IF k > Len(pairs) THEN acc
    ELSE CountryPairs(CountryCheck(acc, pairs[k][1], pairs[k][2], country_info),
                      pairs, k + 1, country_info)

RECURSIVE CityPairs(_, _, _, _)
CityPairs(acc, pairs, k, city_info) ==
    IF k > Len(pairs) THEN acc
    ELSE CityPairs(CityCheck(acc, pairs[k][1], pairs[k][2], city_info),
                   pairs, k + 1, city_info)

\* for city in country.get("children", [])
RECURSIVE CityLoop(_, _, _, _, _)
CityLoop(acc, country, j, search_variants, seed) ==
    IF j > Len(country.children) THEN acc
    ELSE LET city == country.children[j]
             city_variants == normalize_and_transliterate(city.name, seed)
         IN CityLoop(CityPairs(acc, VariantPairs(search_variants, city_variants), 1,
                               CityInfo(city, country)),
                     country, j + 1, search_variants, seed)

\* for country in locations
RECURSIVE CountryLoop(_, _, _, _, _)
CountryLoop(acc, locs, i, search_variants, seed) ==
    IF i > Len(locs) THEN acc
    ELSE LET country == locs[i]
             country_variants == normalize_and_transliterate(country.name, seed)
             afterCountry == CountryPairs(acc, VariantPairs(search_variants, country_variants),
                                          1, CountryInfo(country))
         IN CountryLoop(CityLoop(afterCountry, country, 1, search_variants, seed),
                        locs, i + 1, search_variants, seed)

\* "Remove duplicates from city matches": keep the first entry of every id
RECURSIVE UniqueById(_)
UniqueById(cities) ==
    IF cities = <<>> THEN <<>>
    ELSE LET front == UniqueById(SubSeq(cities, 1, Len(cities) - 1))
             last == cities[Len(cities)]
         IN IF \E k \in 1..Len(front) : front[k].id = last.id
            THEN front
            ELSE Append(front, last)

\* find_location_comprehensive(location_name, "destination")
find_location_comprehensive(location_name, locs, seed) ==
    IF locs = <<>>
    THEN [exact_match |-> None, country_match |-> None, city_matches |-> <<>>,
          all_countries |-> <<>>]
    ELSE LET search_variants == normalize_and_transliterate(location_name, seed)
             acc == CountryLoop([exact_match |-> None, country_match |-> None,
                                 city_matches |-> <<>>],
                                locs, 1, search_variants, seed)
         IN [exact_match |-> acc.exact_match,
             country_match |-> acc.country_match,
             city_matches |-> UniqueById(acc.city_matches),
             all_countries |-> [i \in 1..Len(locs) |-> CountryInfo(locs[i])]]

(***************************************************************************)
(* Inputs                                                                  *)
(***************************************************************************)

MaxChildren == 2

\* Names the locations API returns
CountryNames == { <<"a", "b">>, <<"B">> }

CityNames == { <<"a">>, <<"x">>, <<"a", "b">> }

\* destination_place arguments; <<>> stands for None and for ""
RawNames == { <<"a", "b">>, <<"A", " ">>, <<"x">>, <<" ", "b">>, <<" ">> }

HashSeeds == {"asc", "desc"}

\* One country of the locations API: ids are positive and unique
MkCountry(i, name, childNames) ==
    [id |-> i, name |-> name,
     children |-> [j \in 1..Len(childNames) |-> [id |-> 10 * i + j, name |-> childNames[j]]]]

ChildNameSeqs == UNION {[1..k -> CityNames] : k \in 0..MaxChildren}

CountryShapes == CountryNames \X ChildNameSeqs

\* The location lists the resolver is checked on: up to two countries
LocationLists ==
    UNION {{[i \in 1..n |-> MkCountry(i, f[i][1], f[i][2])] : f \in [1..n -> CountryShapes]}
           : n \in 0..2}

\* The location lists the cascade is checked on: no list (the fetch failed),
\* one country with children of different names, two countries whose children
\* all carry one name, a country named like a city of another country, and
\* one country whose children all carry one name that contains other names
SearchLocations ==
    { <<>>,
      << MkCountry(1, <<"B">>, [j \in 1..MaxChildren |-> <<"a", "b">>]) >>,
      << MkCountry(1, <<"B">>,
                   [j \in 1..MaxChildren |-> IF j = 1 THEN <<"a">> ELSE <<"a", "b">>]) >>,
      << MkCountry(1, <<"x">>, [j \in 1..MaxChildren |-> <<"a", "b">>]),
         MkCountry(2, <<"x", "x">>, [j \in 1..MaxChildren |-> <<"a", "b">>]) >>,
      << MkCountry(1, <<"a", "b">>, << <<"a">> >>),
         MkCountry(2, <<"a">>, << >>) >> }

\* Optional[int]: <<>> is None, <<n>> is n
NoInt == <<>>

\* The <<budget_max, duration_days>> arguments search_tours is called with
FilterArguments ==
    { <<NoInt, NoInt>>, <<<<2>>, NoInt>>, <<NoInt, <<4>>>>, <<<<2>>, <<4>>>>, <<<<0>>, <<0>>>> }

\* Tour records of the tours API; price_set/days_set are FALSE for a missing
\* or null field
Tour(i, p, d) == [id |-> i, price_set |-> TRUE, price |-> p, days_set |-> TRUE, days |-> d]

TourNoFields(i) == [id |-> i, price_set |-> FALSE, price |-> 0, days_set |-> FALSE, days |-> 0]

\* A reply with more tours than the 10 a result carries; every second one is
\* cheap
ManyTours == [i \in 1..11 |-> Tour(10 + i, IF i % 2 = 1 THEN 1 ELSE 5, 3)]

TourLists ==
    { <<>>,
      << Tour(1, 1, 3), Tour(2, 5, 7) >>,
      << TourNoFields(3) >>,
      ManyTours }

\* What GET /tours can do: raise (network error, timeout), answer with an error
\* status, with a body that is not JSON, with success=false, with success=true
\* and null for 'data', or with a tour list
ApiReplies ==
    { [kind |-> "exception", status_code |-> 0, success |-> FALSE, data |-> <<>>],
      [kind |-> "http", status_code |-> 500, success |-> FALSE, data |-> <<>>],
      [kind |-> "bad_json", status_code |-> 200, success |-> FALSE, data |-> <<>>],
      [kind |-> "http", status_code |-> 200, success |-> FALSE, data |-> <<>>],
      [kind |-> "null_data", status_code |-> 200, success |-> TRUE, data |-> <<>>] }
    \cup { [kind |-> "http", status_code |-> 200, success |-> TRUE, data |-> t] : t \in TourLists }

(***************************************************************************)
(* search_tours                                                            *)
(***************************************************************************)

\* Faulty variant of TakeFirst: the list is not cut
TakeFirstUncut(s, n) == s

\* s[:n]
TakeFirst(s, n) == SubSeq(s, 1, Min(n, Len(s)))

\* The reply makes the code that handles it raise: requests.get raises,
\* response.json() raises, or len() is applied to the null 'data'
Raises(reply) == reply.kind \in {"exception", "bad_json", "null_data"}

\* The reply is a failure of the API: anything but HTTP 200 with success=true
\* and a list of tours
ApiFailed(reply) == Raises(reply) \/ reply.status_code # 200 \/ ~reply.success

\* The outcome of a block of code that raised
Raised == [status |-> "raised"]

\* search_tours_for_location, given what the request did
search_tours_for_location(reply) ==
    IF Raises(reply)
    THEN [success |-> FALSE, tours |-> <<>>, count |-> 0]
    ELSE IF reply.status_code = 200 /\ reply.success
         THEN [success |-> TRUE, tours |-> reply.data, count |-> Len(reply.data)]
         ELSE [success |-> FALSE, tours |-> <<>>, count |-> 0]

\* Python truthiness of an Optional[int]
Truthy(opt) == opt # NoInt /\ opt[1] # 0

RECURSIVE SelectSeq2(_, _, _)
SelectSeq2(s, budget, keepPrice) ==
    IF s = <<>> THEN <<>>
    ELSE LET t == Head(s)
             keep == IF keepPrice
                     THEN t.price_set /\ t.price <= budget
                     ELSE t.days_set /\ Abs(t.days - budget) <= 2
         IN (IF keep THEN <<t>> ELSE <<>>) \o SelectSeq2(Tail(s), budget, keepPrice)

\* the budget filter of search_tours
BudgetFilter(tours, budget) ==
    IF Truthy(budget) THEN SelectSeq2(tours, budget[1], TRUE) ELSE tours

\* the duration filter of search_tours
DurationFilter(tours, duration) ==
    IF Truthy(duration) THEN SelectSeq2(tours, duration[1], FALSE) ELSE tours

\* The canned list of _build_no_tours_suggestions
\* (each canned name is written as a string of one symbol)
PopularDestinations ==
    << <<"Turkiya">>, <<"BAA">>, <<"Tailand">>, <<"Misr">>, <<"Gruziya">>, <<"Indoneziya">> >>

\* [c["name"] for c in cities if c["name"] != name]
RECURSIVE NamesExcept(_, _)
NamesExcept(cities, name) ==
    IF cities = <<>> THEN <<>>
    ELSE (IF Head(cities).name # name THEN <<Head(cities).name>> ELSE <<>>)
         \o NamesExcept(Tail(cities), name)

NamesOf(cities) == [k \in 1..Len(cities) |-> cities[k].name]

\* the first country of all_countries with this name, or None
CountryNamed(all_countries, name) ==
    IF \E i \in 1..Len(all_countries) : all_countries[i].name = name
    THEN all_countries[CHOOSE i \in 1..Len(all_countries) :
                           /\ all_countries[i].name = name
                           /\ \A l \in 1..(i - 1) : all_countries[l].name # name]
    ELSE None

\* "Add their countries too": for city in city_matches[:2]
RECURSIVE AddCountries(_, _)
AddCountries(suggestions, cities) ==
    IF cities = <<>> THEN suggestions
    ELSE LET c == Head(cities).country
             next == IF c # <<>> /\ ~(\E k \in 1..Len(suggestions) : suggestions[k] = c)
                     THEN Append(suggestions, c)
                     ELSE suggestions
         IN AddCountries(next, Tail(cities))

\* Faulty variant of LocationSuggestions: the searched city is suggested too
LocationSuggestionsKeepCity(lr) ==
    IF lr.exact_match # None /\ lr.exact_match.type = "city"
    THEN LET country == CountryNamed(lr.all_countries, lr.exact_match.country)
         IN IF country # None THEN NamesOf(TakeFirst(country.cities, 5))
            ELSE <<lr.exact_match.country>>
    ELSE IF lr.country_match # None
    THEN NamesOf(TakeFirst(lr.country_match.cities, 5))
    ELSE IF lr.city_matches # <<>>
    THEN AddCountries(NamesOf(TakeFirst(lr.city_matches, 4)),
                      TakeFirst(lr.city_matches, 2))
    ELSE <<>>

\* The suggestions _build_no_tours_suggestions derives from the location result
LocationSuggestions(lr) ==
    IF lr.exact_match # None /\ lr.exact_match.type = "city"
    THEN LET city == lr.exact_match
             country_name == city.country
             country == CountryNamed(lr.all_countries, country_name)
             other_cities == IF country_name # <<>> /\ country # None
                             THEN NamesExcept(TakeFirst(country.cities, 5), city.name)
                             ELSE <<>>
         IN IF other_cities = <<>> /\ country_name # <<>>
            THEN <<country_name>>
            ELSE other_cities
    ELSE IF lr.country_match # None
    THEN NamesOf(TakeFirst(lr.country_match.cities, 5))
    ELSE IF lr.city_matches # <<>>
    THEN AddCountries(NamesOf(TakeFirst(lr.city_matches, 4)),
                      TakeFirst(lr.city_matches, 2))
    ELSE <<>>

\* Faulty variant of NoToursSuggestions: no canned list when no name is derived
NoToursSuggestionsNoFallback(lr) == TakeFirst(LocationSuggestions(lr), 6)

\* _build_no_tours_suggestions
NoToursSuggestions(lr) ==
    LET suggestions == LocationSuggestions(lr)
    IN TakeFirst(IF suggestions = <<>> THEN PopularDestinations ELSE suggestions, 6)

\* Faulty variants of the guards and city lists below
Strategy2AppliesInverted(tf, lr) ==
    tf # <<>> /\ lr.exact_match # None /\ lr.exact_match.type = "city"

Strategy4AppliesUnguarded(tf, lr) == lr.city_matches # <<>>

Strategy3CitiesFirstOnly(lr) == TakeFirst(lr.exact_match.cities, 1)

Strategy4CitiesAll(lr) == lr.city_matches

\* The conditions guarding strategies 2 to 5
Strategy2Applies(tf, lr) ==
    tf = <<>> /\ lr.exact_match # None /\ lr.exact_match.type = "city"

Strategy3Applies(tf, lr) ==
    tf = <<>> /\ lr.exact_match # None /\ lr.exact_match.type = "country"

Strategy4Applies(tf, lr) == tf = <<>> /\ lr.city_matches # <<>>

Strategy5Applies(tf, lr) == tf = <<>> /\ lr.country_match # None

\* The cities each looping strategy walks through
Strategy3Cities(lr) == lr.exact_match.cities

Strategy4Cities(lr) == TakeFirst(lr.city_matches, 3)

Strategy5Cities(lr) == TakeFirst(lr.country_match.cities, 5)

\* The country of all_countries with this id (first one), or None
CountryById(all_countries, id) ==
    IF \E i \in 1..Len(all_countries) : all_countries[i].id = id
    THEN all_countries[CHOOSE i \in 1..Len(all_countries) :
                           /\ all_countries[i].id = id
                           /\ \A l \in 1..(i - 1) : all_countries[l].id # id]
    ELSE None

\* One GET /tours request for a location id, and its processed result
Request(tag, id, reply, tours_result) ==
    /\ requests' = Append(requests, <<tag, id>>)
    /\ responses' = Append(responses, tours_result)
    /\ failures' = Append(failures, ApiFailed(reply))

HasTours(tours_result) == tours_result.success /\ tours_result.count > 0

\* search_tours up to the branch on destination_place
SearchStart ==
    /\ pc = "call"
    /\ IF destination_place # <<>>
       THEN /\ location_result' = find_location_comprehensive(destination_place, locations, hash_seed)
            /\ variants' = SearchVariants(destination_place, locations, hash_seed)
            /\ pc' = "s1"
       ELSE /\ location_result' = location_result
            /\ variants' = variants
            /\ pc' = "all"
    /\ tours_found' = <<>>
    /\ search_strategy' = "none"
    /\ searched_location' = None
    /\ UNCHANGED <<destination_place, budget_max, duration_days, locations, hash_seed,
                   idx, all_country_tours, cities_with_tours, requests, responses, failures, result>>
    /\ UNCHANGED <<convVars, auxVars>>

\* Strategy 1: exact match (city or country)
Strategy1 ==
    /\ pc = "s1"
    /\ IF location_result.exact_match # None
       THEN \E reply \in ApiReplies :
              LET exact_match == location_result.exact_match
                  tours_result == search_tours_for_location(reply)
              IN /\ Request("exact_match", exact_match.id, reply, tours_result)
                 /\ IF HasTours(tours_result)
                    THEN /\ tours_found' = tours_result.tours
                         /\ search_strategy' = IF exact_match.type = "city"
                                               THEN "exact_match_city"
                                               ELSE "exact_match_country"
                         /\ searched_location' = exact_match
                    ELSE UNCHANGED <<tours_found, search_strategy, searched_location>>
       ELSE UNCHANGED <<requests, responses, failures, tours_found, search_strategy, searched_location>>
    /\ pc' = "s2"
    /\ UNCHANGED <<destination_place, budget_max, duration_days, locations, hash_seed,
                   location_result, variants, idx, all_country_tours, cities_with_tours, result>>
    /\ UNCHANGED <<convVars, auxVars>>

\* Strategy 2: the parent country of an exactly matched city
Strategy2 ==
    /\ pc = "s2"
    /\ IF Strategy2Applies(tours_found, location_result)
          /\ location_result.exact_match.country_id # 0
       THEN \E reply \in ApiReplies :
              LET country_id == location_result.exact_match.country_id
                  tours_result == search_tours_for_location(reply)
              IN /\ Request("country_fallback_from_city", country_id, reply, tours_result)
                 /\ IF HasTours(tours_result)
                    THEN /\ tours_found' = tours_result.tours
                         /\ search_strategy' = "country_fallback_from_city"
                         /\ searched_location' =
                                LET c == CountryById(location_result.all_countries, country_id)
                                IN IF c # None THEN c ELSE searched_location
                    ELSE UNCHANGED <<tours_found, search_strategy, searched_location>>
       ELSE UNCHANGED <<requests, responses, failures, tours_found, search_strategy, searched_location>>
    /\ pc' = "s3"
    /\ idx' = 1
    /\ all_country_tours' = <<>>
    /\ UNCHANGED <<destination_place, budget_max, duration_days, locations, hash_seed,
                   location_result, variants, cities_with_tours, result>>
    /\ UNCHANGED <<convVars, auxVars>>

\* Strategy 3: every city of an exactly matched country; one loop iteration,
\* or the code after the loop
Strategy3 ==
    /\ pc = "s3"
    /\ IF Strategy3Applies(tours_found, location_result)
          /\ idx <= Len(Strategy3Cities(location_result))
       THEN \E reply \in ApiReplies :
              LET city == Strategy3Cities(location_result)[idx]
                  city_tours_result == search_tours_for_location(reply)
              IN /\ Request("cities_in_country", city.id, reply, city_tours_result)
                 /\ all_country_tours' = IF HasTours(city_tours_result)
                                         THEN all_country_tours \o city_tours_result.tours
                                         ELSE all_country_tours
                 /\ idx' = idx + 1
                 /\ UNCHANGED <<pc, tours_found, search_strategy, searched_location>>
       ELSE /\ IF Strategy3Applies(tours_found, location_result) /\ all_country_tours # <<>>
               THEN /\ tours_found' = all_country_tours
                    /\ search_strategy' = "cities_in_country"
                    /\ searched_location' = location_result.exact_match
               ELSE UNCHANGED <<tours_found, search_strategy, searched_location>>
            /\ pc' = "s4"
            /\ idx' = 1
            /\ all_country_tours' = <<>>
            /\ UNCHANGED <<requests, responses, failures>>
    /\ UNCHANGED <<destination_place, budget_max, duration_days, locations, hash_seed,
                   location_result, variants, cities_with_tours, result>>
    /\ UNCHANGED <<convVars, auxVars>>

\* Strategy 4: the first city_matches, until one has tours
Strategy4 ==
    /\ pc = "s4"
    /\ IF Strategy4Applies(tours_found, location_result)
          /\ idx <= Len(Strategy4Cities(location_result))
       THEN \E reply \in ApiReplies :
              LET city == Strategy4Cities(location_result)[idx]
                  city_tours_result == search_tours_for_location(reply)
              IN /\ Request("similar_city", city.id, reply, city_tours_result)
                 /\ IF HasTours(city_tours_result)
                    THEN /\ tours_found' = city_tours_result.tours
                         /\ search_strategy' = "similar_city"
                         /\ searched_location' = city
                         /\ pc' = "s5"
                         /\ idx' = 1
                    ELSE /\ idx' = idx + 1
                         /\ UNCHANGED <<pc, tours_found, search_strategy, searched_location>>
       ELSE /\ pc' = "s5"
            /\ idx' = 1
            /\ UNCHANGED <<requests, responses, failures, tours_found, search_strategy, searched_location>>
    /\ UNCHANGED <<destination_place, budget_max, duration_days, locations, hash_seed,
                   location_result, variants, all_country_tours, cities_with_tours, result>>
    /\ UNCHANGED <<convVars, auxVars>>

\* Strategy 5: the first cities of the matched country
Strategy5 ==
    /\ pc = "s5"
    /\ IF Strategy5Applies(tours_found, location_result)
          /\ idx <= Len(Strategy5Cities(location_result))
       THEN \E reply \in ApiReplies :
              LET city == Strategy5Cities(location_result)[idx]
                  city_tours_result == search_tours_for_location(reply)
              IN /\ Request("country_match_cities", city.id, reply, city_tours_result)
                 /\ all_country_tours' = IF HasTours(city_tours_result)
                                         THEN all_country_tours \o city_tours_result.tours
                                         ELSE all_country_tours
                 /\ idx' = idx + 1
                 /\ UNCHANGED <<pc, tours_found, search_strategy, searched_location,
                                cities_with_tours>>
       ELSE /\ IF Strategy5Applies(tours_found, location_result) /\ all_country_tours # <<>>
               THEN /\ tours_found' = all_country_tours
                    /\ search_strategy' = "country_match_cities"
                    /\ searched_location' = location_result.country_match
                    /\ pc' = "finish"
               ELSE /\ UNCHANGED <<tours_found, search_strategy, searched_location>>
                    /\ pc' = IF tours_found # <<>> /\ search_strategy = "country_fallback_from_city"
                             THEN "suggest"
                             ELSE "finish"
            /\ idx' = 1
            /\ all_country_tours' = <<>>
            /\ cities_with_tours' = <<>>
            /\ UNCHANGED <<requests, responses, failures>>
    /\ UNCHANGED <<destination_place, budget_max, duration_days, locations, hash_seed,
                   location_result, variants, result>>
    /\ UNCHANGED <<convVars, auxVars>>

ErrorResult == [status |-> "error", tours |-> <<>>, count |-> 0]

\* _build_intelligent_suggestions for strategy country_fallback_from_city:
\* one iteration of its loop over the first 8 cities of the country found
SuggestStep ==
    /\ pc = "suggest"
    /\ IF searched_location = None
       THEN \* country.get on None raises; the except branch of search_tours returns
            /\ result' = ErrorResult
            /\ pc' = "done"
            /\ UNCHANGED <<idx, cities_with_tours, requests, responses, failures>>
       ELSE LET cities == TakeFirst(searched_location.cities, 8)
            IN IF idx > Len(cities)
               THEN /\ pc' = "finish"
                    /\ UNCHANGED <<idx, cities_with_tours, requests, responses, failures, result>>
               ELSE IF cities[idx].name = location_result.exact_match.name
               THEN /\ idx' = idx + 1
                    /\ UNCHANGED <<pc, cities_with_tours, requests, responses, failures, result>>
               ELSE \E reply \in ApiReplies :
                      LET city_tours_result == search_tours_for_location(reply)
                      IN /\ Request("suggestions", cities[idx].id, reply, city_tours_result)
                         /\ cities_with_tours' = IF HasTours(city_tours_result)
                                                 THEN Append(cities_with_tours, cities[idx].name)
                                                 ELSE cities_with_tours
                         /\ idx' = idx + 1
                         /\ UNCHANGED <<pc, result>>
    /\ UNCHANGED <<destination_place, budget_max, duration_days, locations, hash_seed,
                   location_result, variants, tours_found, all_country_tours, search_strategy,
                   searched_location>>
    /\ UNCHANGED <<convVars, auxVars>>

\* _build_intelligent_suggestions, given the cities found to have tours
IntelligentSuggestions(strategy, searched, lr, with_tours) ==
    IF strategy = "country_fallback_from_city"
    THEN TakeFirst(with_tours, 5)
    ELSE IF strategy \in {"cities_in_country", "country_match_cities"}
    THEN NamesOf(TakeFirst(searched.cities, 5))
    ELSE IF strategy = "similar_city"
    THEN LET country == CountryNamed(lr.all_countries, searched.country)
         IN IF searched.country # <<>> /\ country # None
            THEN NamesExcept(TakeFirst(country.cities, 4), searched.name)
            ELSE <<>>
    ELSE <<>>

\* The filters, applied to tours_found
FilteredTours(tours, budget, duration) ==
    DurationFilter(BudgetFilter(tours, budget), duration)

\* Faulty variant of DestinationResult: the filtered list decides between
\* success and no_tours_found
DestinationResultFilteredFirst(tf, strategy, searched, lr, with_tours, budget, duration) ==
    LET filtered_tours == FilteredTours(tf, budget, duration)
    IN IF filtered_tours # <<>>
       THEN [status |-> "success",
             count |-> Len(filtered_tours),
             tours |-> TakeFirst(filtered_tours, 10),
             search_strategy |-> strategy,
             searched_location |-> IF searched # None THEN searched.name ELSE <<>>,
             searched_location_type |-> IF searched # None THEN searched.type ELSE "none",
             suggestions |-> IntelligentSuggestions(strategy, searched, lr, with_tours),
             has_more |-> Len(filtered_tours) > 10]
       ELSE [status |-> "no_tours_found",
             count |-> 0,
             tours |-> <<>>,
             suggestions |-> NoToursSuggestions(lr)]

\* The dictionary search_tours returns on the destination branch
DestinationResult(tf, strategy, searched, lr, with_tours, budget, duration) ==
    IF tf # <<>>
    THEN LET filtered_tours == FilteredTours(tf, budget, duration)
         IN [status |-> "success",
             count |-> Len(filtered_tours),
             tours |-> TakeFirst(filtered_tours, 10),
             search_strategy |-> strategy,
             searched_location |-> IF searched # None THEN searched.name ELSE <<>>,
             searched_location_type |-> IF searched # None THEN searched.type ELSE "none",
             suggestions |-> IntelligentSuggestions(strategy, searched, lr, with_tours),
             has_more |-> Len(filtered_tours) > 10]
    ELSE [status |-> "no_tours_found",
          count |-> 0,
          tours |-> <<>>,
          suggestions |-> NoToursSuggestions(lr)]

\* The end of the destination branch: filters, suggestions and the result
Finish ==
    /\ pc = "finish"
    /\ result' = DestinationResult(tours_found, search_strategy, searched_location,
                                   location_result, cities_with_tours,
                                   budget_max, duration_days)
    /\ pc' = "done"
    /\ UNCHANGED <<destination_place, budget_max, duration_days, locations, hash_seed,
                   location_result, variants, idx, tours_found, all_country_tours, search_strategy,
                   searched_location, cities_with_tours, requests, responses, failures>>
    /\ UNCHANGED <<convVars, auxVars>>

\* The branch "No destination specified, search all" inside the try block
SearchAllBody(reply) ==
    IF Raises(reply)
    THEN Raised
    ELSE IF reply.status_code = 200 /\ reply.success
         THEN [status |-> "success",
               count |-> Len(reply.data),
               tours |-> TakeFirst(reply.data, 10)]
         ELSE ErrorResult

\* Faulty variant of SearchAllResult: the except clause is missing
SearchAllResultNoCatch(reply) == SearchAllBody(reply)

\* The dictionary search_tours returns when no destination is given: what the
\* try block returned, or the dictionary of the except clause
SearchAllResult(reply) ==
    IF SearchAllBody(reply) = Raised THEN ErrorResult ELSE SearchAllBody(reply)

\* "No destination specified, search all"
SearchAll ==
    /\ pc = "all"
    /\ \E reply \in ApiReplies :
         /\ Request("all", 0, reply, search_tours_for_location(reply))
         /\ result' = SearchAllResult(reply)
    /\ pc' = "done"
    /\ UNCHANGED <<destination_place, budget_max, duration_days, locations, hash_seed,
                   location_result, variants, idx, tours_found, all_country_tours, search_strategy,
                   searched_location, cities_with_tours>>
    /\ UNCHANGED <<convVars, auxVars>>

(***************************************************************************)
(* Specifications of the resolver and of the cascade                       *)
(***************************************************************************)

\* External conversation ids (Chatwoot conversation ids, Telegram user ids)
ConversationIds == {"c1", "c2", "c3"}

ConvInit ==
    /\ conversation_states = << >>
    /\ issued_uuids = {}
    /\ clock = 0
    /\ returned = [c \in ConversationIds |-> <<>>]

\* Optional[list]: None, or a list
NoList == [is_none |-> TRUE, value |-> <<>>]

SomeList(l) == [is_none |-> FALSE, value |-> l]

\* tools.py lines 16-17: both caches start as None
CacheInit ==
    /\ locations_cache = NoList
    /\ origin_locations_cache = NoList
    /\ cache_calls = <<>>

\* No webhook request was handled yet
WebInit ==
    /\ webhook_data = None
    /\ http_response = None
    /\ handled = 0
    /\ agent_calls = <<>>
    /\ sent_messages = <<>>

\* Both requests are about to call get_config
RaceInit ==
    /\ req_pc = [r \in {"r1", "r2"} |-> "config_check"]
    /\ req_thread = [r \in {"r1", "r2"} |-> ""]
    /\ req_logged = [r \in {"r1", "r2"} |-> <<>>]

\* No run of the agent graph has started
GraphInit ==
    /\ node = "START"
    /\ graph_messages = <<>>
    /\ local_messages = <<>>
    /\ invocations = <<>>
    /\ path = <<>>
    /\ last_tool_calls = <<>>
    /\ tool_node_log = <<>>

RecLocalsInit ==
    /\ unique_places = <<>>
    /\ all_recommended_tours = <<>>
    /\ searched_places = <<>>
    /\ recommendation = None
    /\ rec_pc = "call"

\* get_tour_recommendations has not been called
RecIdle ==
    /\ interests = <<>>
    /\ budget_range = <<>>
    /\ set_order = "asc"
    /\ RecLocalsInit

\* A new browser session: st.session_state is empty
UiInit ==
    /\ session_state = << >>
    /\ ui_pc = "start"
    /\ rerun_by = "none"
    /\ previous_thread_id = ""

\* MemoryStorage starts without a state for the user
BotInit ==
    /\ fsm_state = "none"
    /\ bot_log = <<>>

LateInit == RecIdle /\ UiInit /\ BotInit

AuxInit ==
    /\ CacheInit
    /\ WebInit
    /\ RaceInit
    /\ GraphInit
    /\ LateInit
    /\ req_conv = [r \in {"r1", "r2"} |-> "c1"]

SearchLocalsInit ==
    /\ location_result = None
    /\ variants = <<>>
    /\ idx = 1
    /\ tours_found = <<>>
    /\ all_country_tours = <<>>
    /\ search_strategy = "none"
    /\ searched_location = None
    /\ cities_with_tours = <<>>
    /\ requests = <<>>
    /\ responses = <<>>
    /\ failures = <<>>
    /\ result = None

\* One call of search_tours
InitSearch ==
    /\ destination_place \in RawNames \cup {<<>>}
    /\ \E f \in FilterArguments : budget_max = f[1] /\ duration_days = f[2]
    /\ locations \in SearchLocations
    /\ hash_seed \in HashSeeds
    /\ pc = "call"
    /\ SearchLocalsInit
    /\ ConvInit
    /\ AuxInit

NextSearch ==
    \/ SearchStart
    \/ Strategy1
    \/ Strategy2
    \/ Strategy3
    \/ Strategy4
    \/ Strategy5
    \/ SuggestStep
    \/ Finish
    \/ SearchAll

SpecSearch == InitSearch /\ [][NextSearch]_vars

\* One call of find_location_comprehensive(name, "destination")
Resolve ==
    /\ pc = "resolve"
    /\ location_result' = find_location_comprehensive(destination_place, locations, hash_seed)
    /\ variants' = SearchVariants(destination_place, locations, hash_seed)
    /\ pc' = "resolved"
    /\ UNCHANGED <<destination_place, budget_max, duration_days, locations, hash_seed,
                   idx, tours_found, all_country_tours, search_strategy,
                   searched_location, cities_with_tours, requests, responses, failures, result>>
    /\ UNCHANGED <<convVars, auxVars>>

InitLoc ==
    /\ destination_place \in RawNames
    /\ budget_max = NoInt
    /\ duration_days = NoInt
    /\ locations \in LocationLists
    /\ hash_seed \in HashSeeds
    /\ pc = "resolve"
    /\ SearchLocalsInit
    /\ ConvInit
    /\ AuxInit

NextLoc == Resolve

SpecLoc == InitLoc /\ [][NextLoc]_vars

(***************************************************************************)
(* ConversationManager (main.py; bot.py holds the same three methods over  *)
(* conversation_contexts)                                                  *)
(***************************************************************************)

MaxCalls == 4

\* The values uuid.uuid4() can return.  A version-4 UUID is 122 random bits;
\* a draw is modelled as a value not drawn before in this process.
UUIDs == {"u1", "u2", "u3", "u4"}

\* Messages handed to add_message
Messages == { [content |-> "hello", type |-> "HumanMessage"],
              [content |-> "offer", type |-> "AIMessage"] }

\* Faulty variant of GetOrCreate: the membership test is missing
GetOrCreateAlwaysCreates(states, conversation_id, uuid, now) ==
    [c \in DOMAIN states \cup {conversation_id} |->
        IF c = conversation_id
        THEN [thread_id |-> uuid, messages |-> <<>>, created_at |-> now]
        ELSE states[c]]

\* The dictionary after the body of get_or_create_thread_id
GetOrCreate(states, conversation_id, uuid, now) ==
    IF conversation_id \notin DOMAIN states
    THEN [c \in DOMAIN states \cup {conversation_id} |->
            IF c = conversation_id
            THEN [thread_id |-> uuid, messages |-> <<>>, created_at |-> now]
            ELSE states[c]]
    ELSE states

\* ConversationManager.get_or_create_thread_id
get_or_create_thread_id(conversation_id) ==
    /\ clock < MaxCalls
    /\ \E uuid \in UUIDs \ issued_uuids :
         LET after == GetOrCreate(conversation_states, conversation_id, uuid, clock)
         IN /\ conversation_states' = after
            /\ issued_uuids' = IF after = conversation_states
                               THEN issued_uuids
                               ELSE issued_uuids \cup {uuid}
            /\ returned' = [returned EXCEPT
                              ![conversation_id] = Append(@, after[conversation_id].thread_id)]
    /\ clock' = clock + 1
    /\ UNCHANGED <<searchVars, auxVars>>

\* ConversationManager.get_config: the thread id is returned inside the config
get_config(conversation_id) ==
    /\ get_or_create_thread_id(conversation_id)

\* Faulty variant of AppendMessage: the log is rebuilt from the new entry
AppendMessageResets(states, conversation_id, entry) ==
    [states EXCEPT ![conversation_id].messages = <<entry>>]

\* conversation_states[conversation_id]['messages'].append(entry)
AppendMessage(states, conversation_id, entry) ==
    [states EXCEPT ![conversation_id].messages = Append(@, entry)]

\* ConversationManager.add_message
add_message(conversation_id, message) ==
    /\ clock < MaxCalls
    /\ \E uuid \in UUIDs \ issued_uuids :
         LET after == IF conversation_id \notin DOMAIN conversation_states
                      THEN GetOrCreate(conversation_states, conversation_id, uuid, clock)
                      ELSE conversation_states
             entry == [content |-> message.content, type |-> message.type,
                       timestamp |-> clock]
         IN /\ conversation_states' = AppendMessage(after, conversation_id, entry)
            /\ issued_uuids' = IF after = conversation_states
                               THEN issued_uuids
                               ELSE issued_uuids \cup {uuid}
    /\ clock' = clock + 1
    /\ UNCHANGED returned
    /\ UNCHANGED <<searchVars, auxVars>>

InitConv ==
    /\ destination_place = <<>>
    /\ budget_max = NoInt
    /\ duration_days = NoInt
    /\ locations = <<>>
    /\ hash_seed = "asc"
    /\ pc = "idle"
    /\ SearchLocalsInit
    /\ ConvInit
    /\ AuxInit

NextConv ==
    \/ \E c \in ConversationIds : get_or_create_thread_id(c)
    \/ \E c \in ConversationIds : get_config(c)
    \/ \E c \in ConversationIds, m \in Messages : add_message(c, m)

SpecConv == InitConv /\ [][NextConv]_vars

(***************************************************************************)
(* The cached location lists (tools.py get_locations_data and              *)
(* get_origin_locations_data)                                              *)
(***************************************************************************)

MaxCacheCalls == 4

\* What GET /locations can do: raise (network error, timeout, a body that is
\* not JSON), answer with an error status, with success=false, or with
\* success=true and a 'data' member that is a list, is null, or is missing
LocationReplies ==
    { [kind |-> "exception", status_code |-> 0, success |-> FALSE, has_data |-> FALSE,
       data |-> NoList],
      [kind |-> "http", status_code |-> 500, success |-> FALSE, has_data |-> FALSE,
       data |-> NoList],
      [kind |-> "http", status_code |-> 200, success |-> FALSE, has_data |-> FALSE,
       data |-> NoList],
      [kind |-> "http", status_code |-> 200, success |-> TRUE, has_data |-> FALSE,
       data |-> NoList],
      [kind |-> "http", status_code |-> 200, success |-> TRUE, has_data |-> TRUE,
       data |-> NoList] }
    \cup { [kind |-> "http", status_code |-> 200, success |-> TRUE, has_data |-> TRUE,
            data |-> SomeList(l)] : l \in SearchLocations }

\* The reply recorded for a call that issued no request
NoReply == [kind |-> "none", status_code |-> 0, success |-> FALSE, has_data |-> FALSE,
            data |-> NoList]

\* data.get('data', [])
DataOrDefault(reply) == IF reply.has_data THEN reply.data ELSE SomeList(<<>>)

\* `cache or []`
OrEmpty(cache) == IF cache.is_none THEN <<>> ELSE cache.value

\* The cache after the body of `if cache is None:` ran with this reply.
\* write_ok tells whether writing locations_cache.json succeeded; the write sits
\* inside the try block, after the assignment, so its failure reaches the
\* except clause (get_origin_locations_data writes no file: write_ok is TRUE)
FetchInto(cache, reply, write_ok) ==
    IF reply.kind = "exception"
    THEN SomeList(<<>>)
    ELSE IF reply.status_code = 200 /\ reply.success
         THEN IF write_ok THEN DataOrDefault(reply) ELSE SomeList(<<>>)
         ELSE cache

CacheCall(fn, requested, reply, write_ok, value) ==
    [fn |-> fn, requested |-> requested, reply |-> reply, write_ok |-> write_ok,
     returned |-> value]

\* get_locations_data
get_locations_data ==
    /\ Len(cache_calls) < MaxCacheCalls
    /\ IF locations_cache.is_none
       THEN \E reply \in LocationReplies, write_ok \in BOOLEAN :
              LET after == FetchInto(locations_cache, reply, write_ok)
              IN /\ locations_cache' = after
                 /\ cache_calls' = Append(cache_calls,
                        CacheCall("get_locations_data", TRUE, reply, write_ok, OrEmpty(after)))
       ELSE /\ locations_cache' = locations_cache
            /\ cache_calls' = Append(cache_calls,
                   CacheCall("get_locations_data", FALSE, NoReply, TRUE,
                             OrEmpty(locations_cache)))
    /\ UNCHANGED origin_locations_cache
    /\ UNCHANGED <<searchVars, convVars, webVars, raceVars, graphVars, lateVars>>

\* get_origin_locations_data
get_origin_locations_data ==
    /\ Len(cache_calls) < MaxCacheCalls
    /\ IF origin_locations_cache.is_none
       THEN \E reply \in LocationReplies :
              LET after == FetchInto(origin_locations_cache, reply, TRUE)
              IN /\ origin_locations_cache' = after
                 /\ cache_calls' = Append(cache_calls,
                        CacheCall("get_origin_locations_data", TRUE, reply, TRUE,
                                  OrEmpty(after)))
       ELSE /\ origin_locations_cache' = origin_locations_cache
            /\ cache_calls' = Append(cache_calls,
                   CacheCall("get_origin_locations_data", FALSE, NoReply, TRUE,
                             OrEmpty(origin_locations_cache)))
    /\ UNCHANGED locations_cache
    /\ UNCHANGED <<searchVars, convVars, webVars, raceVars, graphVars, lateVars>>

\* The state of search_tours between calls
SearchIdle ==
    /\ destination_place = <<>>
    /\ budget_max = NoInt
    /\ duration_days = NoInt
    /\ locations = <<>>
    /\ hash_seed = "asc"
    /\ pc = "idle"
    /\ SearchLocalsInit

InitCache ==
    /\ SearchIdle
    /\ ConvInit
    /\ AuxInit

NextCache ==
    \/ get_locations_data
    \/ get_origin_locations_data

SpecCache == InitCache /\ [][NextCache]_vars

(***************************************************************************)
(* The Chatwoot webhook (main.py extract_message_info,                     *)
(* TourAgentProcessor.process_message, handle_chatwoot_webhook)            *)
(***************************************************************************)

MaxWebhooks == 2

\* JSON values of the payload member 'id': absent, a number, a string
NoId == [kind |-> "absent", n |-> 0, s |-> ""]

IdValues == { NoId, [kind |-> "int", n |-> 7, s |-> ""], [kind |-> "str", n |-> 0, s |-> ""] }

\* JSON values of 'message_type': Chatwoot's numbers and names
MessageTypes ==
    { [kind |-> "int", n |-> 0, s |-> ""], [kind |-> "int", n |-> 1, s |-> ""],
      [kind |-> "str", n |-> 0, s |-> "incoming"], [kind |-> "str", n |-> 0, s |-> "outgoing"] }

\* The sender object of a message: absent, or an object with a name
NoSender == [present |-> FALSE, name |-> ""]

Senders == { NoSender, [present |-> TRUE, name |-> "Ann"] }

WebhookMessages ==
    [message_type : MessageTypes, content : {<<"h", "i">>, <<" ">>}, sender : Senders]

\* The payloads posted to /webhook/chatwoot
WebhookEvents ==
    [event : {"message_created", "automation_event.message_created", "conversation_updated"},
     id : IdValues,
     messages : {<<>>} \cup { <<m>> : m \in WebhookMessages }]

\* str(webhook_data.get('id'))
IdStr(id) ==
    CASE id.kind = "absent" -> "None"
      [] id.kind = "int" -> IF id.n = 7 THEN "7" ELSE "0"
      [] OTHER -> id.s

\* message_type != 0 and message_type != 'incoming'
NotIncoming(message_type) ==
    /\ ~(message_type.kind = "int" /\ message_type.n = 0)
    /\ ~(message_type.kind = "str" /\ message_type.s = "incoming")

\* Faulty variant of extract_message_info: the test of message_type is missing
ExtractAnyDirection(data) ==
    IF data.event \notin {"message_created", "automation_event.message_created"}
    THEN None
    ELSE IF IdStr(data.id) = ""
    THEN None
    ELSE IF data.messages = <<>>
    THEN None
    ELSE IF Strip(data.messages[1].content) = <<>>
    THEN None
    ELSE [conversation_id |-> IdStr(data.id),
          message_content |-> Strip(data.messages[1].content),
          sender_info |-> data.messages[1].sender]

\* extract_message_info: None, or the dictionary of the accepted message.
\* sender_info is {} when the message has no sender (present = FALSE).
extract_message_info(data) ==
    IF data.event \notin {"message_created", "automation_event.message_created"}
    THEN None
    ELSE IF IdStr(data.id) = ""
    THEN None
    ELSE IF data.messages = <<>>
    THEN None
    ELSE IF NotIncoming(data.messages[1].message_type)
    THEN None
    ELSE IF Strip(data.messages[1].content) = <<>>
    THEN None
    ELSE [conversation_id |-> IdStr(data.id),
          message_content |-> Strip(data.messages[1].content),
          sender_info |-> data.messages[1].sender]

\* What graph.stream can do for one message: end with an AIMessage that has
\* content, end without one, or raise
AgentOutcomes == {"text", "empty", "exception"}

\* What requests.post does inside ChatwootAPI.send_message
SendOutcomes == {"delivered", "failed"}

Response(status, code) == [status |-> status, code |-> code]

\* The context part "Customer: <name>" of the contextual message ("" when absent)
HumanMessage(info) ==
    [content |-> <<info.sender_info.name, info.message_content>>, type |-> "HumanMessage"]

AIMessage == [content |-> <<"agent", <<"o", "k">> >>, type |-> "AIMessage"]

\* conversation_states after process_message: get_config creates the context,
\* add_message logs the human message, and the AI message when there is one
ProcessMessage(states, info, uuid, now, outcome) ==
    LET created == GetOrCreate(states, info.conversation_id, uuid, now)
        human == [content |-> HumanMessage(info).content, type |-> "HumanMessage",
                  timestamp |-> now + 1]
        logged == AppendMessage(created, info.conversation_id, human)
        ai == [content |-> AIMessage.content, type |-> "AIMessage", timestamp |-> now + 2]
    IN IF outcome = "text" THEN AppendMessage(logged, info.conversation_id, ai) ELSE logged

\* handle_chatwoot_webhook, for one POST
handle_chatwoot_webhook ==
    /\ handled < MaxWebhooks
    /\ handled' = handled + 1
    /\ \E data \in WebhookEvents :
         LET message_info == extract_message_info(data)
         IN /\ webhook_data' = data
            /\ IF message_info = None
               THEN /\ http_response' = Response("ignored", 200)
                    /\ UNCHANGED <<conversation_states, issued_uuids, clock,
                                   agent_calls, sent_messages>>
               ELSE IF ~message_info.sender_info.present
               THEN \* sender_info['name'] of the print raises KeyError on {}
                    /\ http_response' = Response("error", 500)
                    /\ UNCHANGED <<conversation_states, issued_uuids, clock,
                                   agent_calls, sent_messages>>
               ELSE \E outcome \in AgentOutcomes, post \in SendOutcomes,
                       uuid \in UUIDs \ issued_uuids :
                      LET c == message_info.conversation_id
                          after == ProcessMessage(conversation_states, message_info,
                                                  uuid, clock, outcome)
                      IN /\ conversation_states' = after
                         /\ issued_uuids' = IF c \in DOMAIN conversation_states
                                            THEN issued_uuids
                                            ELSE issued_uuids \cup {uuid}
                         /\ clock' = clock + 3
                         /\ agent_calls' =
                                Append(agent_calls, <<c, message_info.message_content>>)
                         /\ IF outcome = "text"
                            THEN /\ sent_messages' = Append(sent_messages,
                                        [conversation_id |-> c, content |-> "ai_response",
                                         delivered |-> post = "delivered"])
                                 /\ http_response' = IF post = "delivered"
                                                     THEN Response("success", 200)
                                                     ELSE Response("error", 500)
                            ELSE /\ sent_messages' = Append(sent_messages,
                                        [conversation_id |-> c, content |-> "fallback",
                                         delivered |-> post = "delivered"])
                                 /\ http_response' = Response("fallback", 200)
    /\ UNCHANGED returned
    /\ UNCHANGED <<searchVars, cacheVars, raceVars, graphVars, lateVars>>

InitWeb ==
    /\ SearchIdle
    /\ ConvInit
    /\ AuxInit

NextWeb == handle_chatwoot_webhook

SpecWeb == InitWeb /\ [][NextWeb]_vars

(***************************************************************************)
(* Two webhook requests handled by two threads of the server: the steps of *)
(* process_message that read or write conversation_states, interleaved     *)
(***************************************************************************)

\* The requests in flight
Requests == {"r1", "r2"}

\* get_config -> get_or_create_thread_id, line 67: the membership test
ConfigCheck(r) ==
    /\ req_pc[r] = "config_check"
    /\ req_pc' = [req_pc EXCEPT ![r] = IF req_conv[r] \notin DOMAIN conversation_states
                                       THEN "config_insert"
                                       ELSE "config_return"]
    /\ UNCHANGED <<conversation_states, issued_uuids, clock, req_thread, req_logged>>
    /\ UNCHANGED <<req_conv, returned, searchVars, cacheVars, webVars, graphVars, lateVars>>

\* lines 68-73: the assignment of a new context, whatever the dictionary holds by now
ConfigInsert(r) ==
    /\ req_pc[r] = "config_insert"
    /\ \E uuid \in UUIDs \ issued_uuids :
         /\ conversation_states' =
                [c \in DOMAIN conversation_states \cup {req_conv[r]} |->
                    IF c = req_conv[r]
                    THEN [thread_id |-> uuid, messages |-> <<>>, created_at |-> clock]
                    ELSE conversation_states[c]]
         /\ issued_uuids' = issued_uuids \cup {uuid}
    /\ clock' = clock + 1
    /\ req_pc' = [req_pc EXCEPT ![r] = "config_return"]
    /\ UNCHANGED <<req_thread, req_logged>>
    /\ UNCHANGED <<req_conv, returned, searchVars, cacheVars, webVars, graphVars, lateVars>>

\* line 74: the thread id of the context the dictionary holds now
ConfigReturn(r) ==
    /\ req_pc[r] = "config_return"
    /\ req_thread' = [req_thread EXCEPT ![r] = conversation_states[req_conv[r]].thread_id]
    /\ req_pc' = [req_pc EXCEPT ![r] = "add_human"]
    /\ UNCHANGED <<conversation_states, issued_uuids, clock, req_logged>>
    /\ UNCHANGED <<req_conv, returned, searchVars, cacheVars, webVars, graphVars, lateVars>>

\* add_message, lines 89-95, for a message m: the context exists by now (nothing
\* removes one), so the entry is appended to the log the dictionary holds
LogMessage(r, m) ==
    LET entry == [content |-> <<r, m.content>>, type |-> m.type, timestamp |-> clock]
    IN /\ conversation_states' = AppendMessage(conversation_states, req_conv[r], entry)
       /\ req_logged' = [req_logged EXCEPT ![r] = Append(@, entry)]
       /\ clock' = clock + 1
       /\ UNCHANGED <<issued_uuids, req_thread>>

\* process_message line 145: add_message(conversation_id, human_message)
AddHuman(r) ==
    /\ req_pc[r] = "add_human"
    /\ LogMessage(r, [content |-> "hello", type |-> "HumanMessage"])
    /\ req_pc' = [req_pc EXCEPT ![r] = "stream"]
    /\ UNCHANGED <<req_conv, returned, searchVars, cacheVars, webVars, graphVars, lateVars>>

\* lines 148-160: graph.stream ends with an AIMessage that has content, or not
Stream(r) ==
    /\ req_pc[r] = "stream"
    /\ \E outcome \in AgentOutcomes :
         req_pc' = [req_pc EXCEPT ![r] = IF outcome = "text" THEN "add_ai" ELSE "done"]
    /\ UNCHANGED <<conversation_states, issued_uuids, clock, req_thread, req_logged>>
    /\ UNCHANGED <<req_conv, returned, searchVars, cacheVars, webVars, graphVars, lateVars>>

\* line 162: add_message(conversation_id, last_message)
AddAI(r) ==
    /\ req_pc[r] = "add_ai"
    /\ LogMessage(r, [content |-> "offer", type |-> "AIMessage"])
    /\ req_pc' = [req_pc EXCEPT ![r] = "done"]
    /\ UNCHANGED <<req_conv, returned, searchVars, cacheVars, webVars, graphVars, lateVars>>

InitRace ==
    /\ SearchIdle
    /\ ConvInit
    /\ CacheInit
    /\ WebInit
    /\ RaceInit
    /\ GraphInit
    /\ LateInit
    /\ req_conv \in [Requests -> {"c1", "c2"}]

NextRace ==
    \/ \E r \in Requests : ConfigCheck(r)
    \/ \E r \in Requests : ConfigInsert(r)
    \/ \E r \in Requests : ConfigReturn(r)
    \/ \E r \in Requests : AddHuman(r)
    \/ \E r \in Requests : Stream(r)
    \/ \E r \in Requests : AddAI(r)

SpecRace == InitRace /\ [][NextRace]_vars

(***************************************************************************)
(* The agent graph (graph.py): START -> assistant, assistant -> tools or   *)
(* END by route_tools, tools -> assistant; and Assistant.__call__          *)
(***************************************************************************)

MaxGraphSteps == 4

MaxReprompts == 2

\* A message of the state: who wrote it, whether it carries tool calls, and
\* what its content is: "" (empty), "str" (a non-empty string), "list_text" (a
\* list whose first block has text), "list_no_text" (a list whose first block
\* has none), or the text of a fixed message
Msg(role, tool_calls, content) ==
    [role |-> role, tool_calls |-> tool_calls, content |-> content]

\* What self.runnable.invoke(state) can return
ModelResults ==
    { Msg("ai", tc, c) : tc \in BOOLEAN, c \in {"", "str", "list_text", "list_no_text"} }

MaxToolCalls == 2

\* The ids the model gives to the tool calls of one message
ToolCallIds == {"call_a", "call_b"}

\* The tool_calls list of a result: empty when it has no tool calls, else
\* one to MaxToolCalls calls with distinct ids
ToolCallsOf(res) ==
    IF ~res.tool_calls THEN {<<>>}
    ELSE { calls \in UNION { [1..n -> [id : ToolCallIds, name : {"search_tours"}]]
                               : n \in 1..MaxToolCalls } :
             \A i, j \in 1..Len(calls) : calls[i].id = calls[j].id => i = j }

\* ("user", "Respond with a real output.")
RePrompt == Msg("user", FALSE, "Respond with a real output.")

\* Faulty variant of IsEmptyResult: the tool calls are not looked at
IsEmptyIgnoringToolCalls(res) ==
    res.content = "" \/ res.content = "list_no_text"

\* The test of Assistant.__call__ that leads to a re-prompt
IsEmptyResult(res) ==
    /\ ~res.tool_calls
    /\ \/ res.content = ""
       \/ res.content = "list_no_text"

\* Faulty variant of route_tools: the two targets are swapped
RouteToolsSwapped(state_messages) ==
    IF state_messages[Len(state_messages)].tool_calls THEN "END" ELSE "tools"

\* route_tools = tools_condition: "tools" when the last message of the state
\* has tool calls, END otherwise
route_tools(state_messages) ==
    IF state_messages[Len(state_messages)].tool_calls THEN "tools" ELSE "END"

GraphFrame == UNCHANGED <<searchVars, convVars, cacheVars, webVars, raceVars, lateVars>>

\* builder.add_edge(START, "assistant"), with the human message as input
GraphStart ==
    /\ node = "START"
    /\ node' = "assistant"
    /\ graph_messages' = <<Msg("human", FALSE, "str")>>
    /\ local_messages' = <<Msg("human", FALSE, "str")>>
    /\ UNCHANGED <<invocations, path, last_tool_calls, tool_node_log>>
    /\ GraphFrame

\* One iteration of the loop of Assistant.__call__: the model is invoked on the
\* local state; an empty result adds the re-prompt to the local state and the
\* loop goes on, any other result is returned as the update {"messages": result}
AssistantInvoke ==
    /\ node = "assistant"
    /\ Len(invocations) <= MaxReprompts
    /\ \E res \in ModelResults : \E calls \in ToolCallsOf(res) :
         /\ invocations' = Append(invocations, res)
         /\ IF IsEmptyResult(res)
            THEN /\ local_messages' = Append(local_messages, RePrompt)
                 /\ UNCHANGED <<node, graph_messages, path, last_tool_calls>>
            ELSE /\ graph_messages' = Append(graph_messages, res)
                 /\ local_messages' = local_messages
                 /\ path' = Append(path, <<"assistant", res.tool_calls>>)
                 /\ last_tool_calls' = calls
                 /\ node' = "route"
    /\ UNCHANGED tool_node_log
    /\ GraphFrame

\* builder.add_conditional_edges("assistant", route_tools, ["tools", END])
RouteTools ==
    /\ node = "route"
    /\ node' = route_tools(graph_messages)
    /\ UNCHANGED <<graph_messages, local_messages, invocations, path,
                   last_tool_calls, tool_node_log>>
    /\ GraphFrame

\* ToolMessage(content=..., tool_call_id=...); the content is "result" for the
\* output of a tool and "issue" for the apology of handle_tool_error
ToolMessage(content, tool_call_id) ==
    [content |-> content, tool_call_id |-> tool_call_id]

\* What MonitoredToolNode.invoke returns when no exception escapes it: the
\* output of each tool call, in order
ToolNodeOutput(tool_calls) ==
    [messages |-> [i \in 1..Len(tool_calls) |-> ToolMessage("result", tool_calls[i].id)]]

\* Faulty variant of handle_tool_error: only the first tool call is answered
HandleToolErrorFirstOnly(tool_calls) ==
    [messages |-> <<ToolMessage("issue", tool_calls[1].id)>>]

\* handle_tool_error(state), with tool_calls = state["messages"][-1].tool_calls
handle_tool_error(tool_calls) ==
    [messages |-> [i \in 1..Len(tool_calls) |-> ToolMessage("issue", tool_calls[i].id)]]

\* MonitoredToolNode(tools).with_fallbacks([RunnableLambda(handle_tool_error)],
\* exception_key="error"): the update of the tools node is the output of the
\* tools, or, when the node raised, what handle_tool_error returns
create_monitored_tool_node_with_fallback(tool_calls, raised) ==
    IF raised THEN handle_tool_error(tool_calls) ELSE ToolNodeOutput(tool_calls)

\* The tools node answers the tool calls of the last assistant message; its
\* messages are added to the state; builder.add_edge("tools", "assistant")
ToolsNode ==
    /\ node = "tools"
    /\ Len(path) < MaxGraphSteps
    /\ \E raised \in BOOLEAN :
         LET update == create_monitored_tool_node_with_fallback(last_tool_calls, raised)
             added == [i \in 1..Len(update.messages) |-> Msg("tool", FALSE, "str")]
         IN /\ graph_messages' = graph_messages \o added
            /\ local_messages' = graph_messages \o added
            /\ tool_node_log' = Append(tool_node_log,
                                       [tool_calls |-> last_tool_calls,
                                        raised |-> raised,
                                        messages |-> update.messages])
    /\ invocations' = <<>>
    /\ path' = Append(path, <<"tools", FALSE>>)
    /\ node' = "assistant"
    /\ UNCHANGED last_tool_calls
    /\ GraphFrame

InitGraph ==
    /\ SearchIdle
    /\ ConvInit
    /\ AuxInit

NextGraph ==
    \/ GraphStart
    \/ AssistantInvoke
    \/ RouteTools
    \/ ToolsNode

SpecGraph == InitGraph /\ [][NextGraph]_vars

(***************************************************************************)
(* get_tour_recommendations (tools.py)                                     *)
(***************************************************************************)

\* interest_destinations, in the order of the dictionary: <<key, places>>
interest_destinations ==
    << << <<"b", "e", "a", "c", "h">>,
          <<"Antaliya", "Dubai", "Sharm al-Shayx", "Pxuket", "Bali", "Male">> >>,
       << <<"l", "u", "x", "u", "r", "y">>,
          <<"Dubai", "Abu-Dabi", "Parij", "Maldiv orollari">> >>,
       << <<"c", "u", "l", "t", "u", "r", "e">>,
          <<"Istanbul", "Buxoro", "Samarqand", "Parij", "Anqara">> >>,
       << <<"a", "d", "v", "e", "n", "t", "u", "r", "e">>,
          <<"Kappadokiya", "Trabzon", "Gruziya", "Vetnam", "Xitoy">> >>,
       << <<"f", "a", "m", "i", "l", "y">>,
          <<"Antaliya", "Dubai", "Istanbul", "Tailand", "BAA">> >>,
       << <<"s", "h", "o", "p", "p", "i", "n", "g">>,
          <<"Dubai", "Istanbul", "Bangkok", "Kuala-Lumpur">> >>,
       << <<"f", "o", "o", "d">>,
          <<"Istanbul", "Bangkok", "Vetnam", "Malayziya">> >>,
       << <<"h", "i", "s", "t", "o", "r", "y">>,
          <<"Turkiya", "Misr", "Gruziya", "Uzbekiston">> >>,
       << <<"r", "o", "m", "a", "n", "c", "e">>,
          <<"Parij", "Maldiv orollari", "Istanbul", "Bali">> >>,
       << <<"n", "a", "t", "u", "r", "e">>,
          <<"Kappadokiya", "Gruziya", "Vetnam", "Malayziya", "Indoneziya">> >>,
       << <<"r", "e", "l", "i", "g", "i", "o", "u", "s">>,
          <<"Saudiya Arabistoni", "Turkiya", "Misr">> >>,
       << <<"w", "e", "l", "l", "n", "e", "s", "s">>,
          <<"Tailand", "Bali", "Gruziya", "Turkiya">> >> >>

\* budget_ranges: key -> <<min_price, max_price>>
budget_ranges ==
    [k \in {<<"b", "u", "d", "g", "e", "t">>, <<"m", "i", "d", "-", "r", "a", "n", "g", "e">>, <<"l", "u", "x", "u", "r", "y">>} |->
        IF k = <<"b", "u", "d", "g", "e", "t">> THEN <<0, 500>>
        ELSE IF k = <<"m", "i", "d", "-", "r", "a", "n", "g", "e">> THEN <<500, 1000>>
        ELSE <<1000, 5000>>]

\* unique_places[:5]
MaxDestinations == 5

\* list(sorted_tours)[:8]
MaxRecommendations == 8

\* The places of the dictionary in alphabetical order: set(recommended_places)
\* iterates in this order or in the reverse one, by set_order
PlaceOrder ==
    << "Abu-Dabi", "Anqara", "Antaliya", "BAA", "Bali", "Bangkok", "Buxoro",
       "Dubai", "Gruziya", "Indoneziya", "Istanbul", "Kappadokiya",
       "Kuala-Lumpur", "Malayziya", "Maldiv orollari", "Male", "Misr",
       "Parij", "Pxuket", "Samarqand", "Saudiya Arabistoni",
       "Sharm al-Shayx", "Tailand", "Trabzon", "Turkiya", "Uzbekiston",
       "Vetnam", "Xitoy" >>

SetOrders == {"asc", "desc"}

\* The places one interest adds, scanning the keys from position k:
\* if key in interest_lower or interest_lower in key
RECURSIVE PlacesOfInterest(_, _)
PlacesOfInterest(interest_lower, k) ==
    IF k > Len(interest_destinations) THEN <<>>
    ELSE LET key == interest_destinations[k][1]
             places == interest_destinations[k][2]
         IN (IF Contains(interest_lower, key) \/ Contains(key, interest_lower)
             THEN places ELSE <<>>)
            \o PlacesOfInterest(interest_lower, k + 1)

\* recommended_places after the loop over the interests
RECURSIVE RecommendedPlaces(_)
RecommendedPlaces(ints) ==
    IF ints = <<>> THEN <<>>
    ELSE PlacesOfInterest(Lower(Head(ints)), 1) \o RecommendedPlaces(Tail(ints))

RECURSIVE SelectPlaces(_, _)
SelectPlaces(order, S) ==
    IF order = <<>> THEN <<>>
    ELSE (IF Head(order) \in S THEN <<Head(order)>> ELSE <<>>)
         \o SelectPlaces(Tail(order), S)

Reverse(q) == [i \in 1..Len(q) |-> q[Len(q) + 1 - i]]

\* list(set(recommended_places))
UniquePlaces(recommended_places, order) ==
    LET S == {recommended_places[i] : i \in 1..Len(recommended_places)}
    IN SelectPlaces(IF order = "asc" THEN PlaceOrder ELSE Reverse(PlaceOrder), S)

\* A tour of a search result: price_kind is "int", "missing" (no 'price' key)
\* or "null" ('price' is None)
RTour(i, kind, p) == [id |-> i, price_kind |-> kind, price |-> p]

\* The tour lists of the search results the recommendations are checked on
RecTourLists ==
    { << RTour(1, "int", 1000), RTour(2, "int", 1200), RTour(3, "int", 5000),
         RTour(4, "int", 5001), RTour(13, "int", 1100) >>,
      << RTour(5, "int", 3000), RTour(6, "int", 1000), RTour(7, "int", 500),
         RTour(8, "int", 2000) >>,
      << RTour(9, "int", 4000), RTour(10, "missing", 0), RTour(1, "int", 1500),
         RTour(12, "int", 2500) >>,
      << RTour(11, "null", 0) >> }

\* What the call search_tours(origin_city=..., destination_place=place,
\* sort_by="price_asc") does: search_tours is the object the @tool decorator
\* made, so the keyword call raises when the object does not accept it, and
\* returns the dictionary of search_tours otherwise
SearchToursOutcomes ==
    { [kind |-> "raises", status |-> "none", tours |-> <<>>],
      [kind |-> "returns", status |-> "no_tours_found", tours |-> <<>>] }
    \cup { [kind |-> "returns", status |-> "success", tours |-> t] : t \in RecTourLists }

\* budget_range and budget_range.lower() in budget_ranges
KnownBudget(b) == b # <<>> /\ Lower(b) \in DOMAIN budget_ranges

\* t.get("price", 0)
PriceOrZero(t) == IF t.price_kind = "missing" THEN 0 ELSE t.price

\* A comparison with the None price of some tour raises TypeError
HasNullPrice(tours) == \E i \in 1..Len(tours) : tours[i].price_kind = "null"

RECURSIVE InRange(_, _, _)
InRange(tours, min_price, max_price) ==
    IF tours = <<>> THEN <<>>
    ELSE (IF min_price <= PriceOrZero(Head(tours)) /\ PriceOrZero(Head(tours)) <= max_price
          THEN <<Head(tours)>> ELSE <<>>)
         \o InRange(Tail(tours), min_price, max_price)

\* Faulty variant of RangeFilter: no upper bound
RangeFilterNoCeiling(tours, b) ==
    IF KnownBudget(b)
    THEN InRange(tours, budget_ranges[Lower(b)][1], 1000000)
    ELSE tours

\* "Apply budget filter" (when no price is None)
RangeFilter(tours, b) ==
    IF KnownBudget(b)
    THEN InRange(tours, budget_ranges[Lower(b)][1], budget_ranges[Lower(b)][2])
    ELSE tours

\* {tour["id"]: tour for tour in all_recommended_tours}.values(): one tour per
\* id, at the position of the first tour with the id, the last one with it
UniqueTours(tours) ==
    LET firsts == {i \in 1..Len(tours) : \A j \in 1..(i - 1) : tours[j].id # tours[i].id}
        LastWith(id) == tours[CHOOSE i \in 1..Len(tours) :
                                 /\ tours[i].id = id
                                 /\ \A j \in (i + 1)..Len(tours) : tours[j].id # id]
        nth(k) == CHOOSE i \in firsts : Cardinality({j \in firsts : j < i}) = k - 1
    IN [k \in 1..Cardinality(firsts) |-> LastWith(tours[nth(k)].id)]

\* sorted(..., key=lambda x: x.get("price", 0)): stable
RECURSIVE InsertByPrice(_, _)
InsertByPrice(sorted, t) ==
    IF sorted = <<>> THEN <<t>>
    ELSE IF PriceOrZero(sorted[Len(sorted)]) <= PriceOrZero(t)
         THEN Append(sorted, t)
         ELSE Append(InsertByPrice(SubSeq(sorted, 1, Len(sorted) - 1), t),
                     sorted[Len(sorted)])

RECURSIVE SortedByPrice(_)
SortedByPrice(tours) ==
    IF tours = <<>> THEN <<>>
    ELSE InsertByPrice(SortedByPrice(SubSeq(tours, 1, Len(tours) - 1)), tours[Len(tours)])

\* The dictionary of `except Exception`
RecommendationError == [status |-> "error", recommendations |-> <<>>,
                        recommended_destinations |-> <<>>]

\* The end of the try block: duplicates removed, sorted by price, cut
RecommendationResult(tours, places) ==
    LET unique_tours == UniqueTours(tours)
    IN IF Len(unique_tours) >= 2 /\ HasNullPrice(unique_tours)
       THEN RecommendationError
       ELSE [status |-> "success",
             recommendations |-> TakeFirst(SortedByPrice(unique_tours), MaxRecommendations),
             recommended_destinations |-> TakeFirst(places, MaxDestinations)]

RecFrame == UNCHANGED <<searchVars, convVars, cacheVars, webVars, raceVars, graphVars, uiVars,
                        botVars>>

\* The loops over the interests, and unique_places
RecommendStart ==
    /\ rec_pc = "call"
    /\ unique_places' = UniquePlaces(RecommendedPlaces(interests), set_order)
    /\ rec_pc' = "loop"
    /\ UNCHANGED <<interests, budget_range, set_order, all_recommended_tours,
                   searched_places, recommendation>>
    /\ RecFrame

\* One iteration of `for place in unique_places[:5]`
RecommendSearch ==
    /\ rec_pc = "loop"
    /\ Len(searched_places) < Len(TakeFirst(unique_places, MaxDestinations))
    /\ \E search_result \in SearchToursOutcomes :
         LET place == unique_places[Len(searched_places) + 1]
             raises == \/ search_result.kind = "raises"
                       \/ /\ search_result.status = "success"
                          /\ KnownBudget(budget_range)
                          /\ HasNullPrice(search_result.tours)
         IN /\ searched_places' = Append(searched_places, place)
            /\ IF raises
               THEN /\ recommendation' = RecommendationError
                    /\ rec_pc' = "done"
                    /\ UNCHANGED all_recommended_tours
               ELSE /\ all_recommended_tours' =
                         IF search_result.status = "success"
                         THEN all_recommended_tours
                              \o RangeFilter(search_result.tours, budget_range)
                         ELSE all_recommended_tours
                    /\ UNCHANGED <<recommendation, rec_pc>>
    /\ UNCHANGED <<interests, budget_range, set_order, unique_places>>
    /\ RecFrame

\* After the loop: the result
RecommendReturn ==
    /\ rec_pc = "loop"
    /\ Len(searched_places) = Len(TakeFirst(unique_places, MaxDestinations))
    /\ recommendation' = RecommendationResult(all_recommended_tours, unique_places)
    /\ rec_pc' = "done"
    /\ UNCHANGED <<interests, budget_range, set_order, unique_places,
                   all_recommended_tours, searched_places>>
    /\ RecFrame

\* The interests lists and budget ranges get_tour_recommendations is called with
InterestLists ==
    { << <<"b", "e", "a", "c", "h">> >>,
      << <<"B", "e", "a", "c", "h">>, <<"l", "u", "x", "u", "r", "y">> >>,
      << <<"r", "e", "l", "i", "g", "i", "o", "u", "s">> >>,
      << <<"z">> >> }

BudgetArguments == { <<>>, <<"B", "u", "d", "g", "e", "t">>, <<"l", "u", "x", "u", "r", "y">>, <<"c", "h", "e", "a", "p">> }

InitRecommend ==
    /\ SearchIdle
    /\ ConvInit
    /\ CacheInit
    /\ WebInit
    /\ RaceInit
    /\ GraphInit
    /\ req_conv = [r \in Requests |-> "c1"]
    /\ UiInit
    /\ BotInit
    /\ interests \in InterestLists
    /\ budget_range \in BudgetArguments
    /\ set_order \in SetOrders
    /\ RecLocalsInit

NextRecommend ==
    \/ RecommendStart
    \/ RecommendSearch
    \/ RecommendReturn

SpecRecommend == InitRecommend /\ [][NextRecommend]_vars

\* C25: at most 5 destinations are searched, each once; a success result has
\* at most 8 tours, with pairwise distinct ids, the priced ones in order of
\* non-decreasing price; and under a known budget_range the price of every
\* returned tour lies between the bounds of the range, bounds included.
C25_Recommendations ==
    /\ Len(searched_places) <= 5
    /\ \A i, j \in 1..Len(searched_places) :
          searched_places[i] = searched_places[j] => i = j
    /\ (rec_pc = "done" /\ recommendation.status = "success") =>
          LET recs == recommendation.recommendations
              priced == {i \in 1..Len(recs) : recs[i].price_kind = "int"}
          IN /\ Len(recs) <= 8
             /\ \A i, j \in 1..Len(recs) : recs[i].id = recs[j].id => i = j
             /\ \A i, j \in priced : i < j => recs[i].price <= recs[j].price
             /\ KnownBudget(budget_range) =>
                   \A i \in priced :
                       /\ budget_ranges[Lower(budget_range)][1] <= recs[i].price
                       /\ recs[i].price <= budget_ranges[Lower(budget_range)][2]

\* Five of more than five destinations were searched under a known budget
\* range, some tours were outside the range or came twice, and 8 of more
\* than 8 tours are returned, the cheapest at the lower bound of the range
C25_Witness ==
    /\ rec_pc = "done"
    /\ recommendation.status = "success"
    /\ KnownBudget(budget_range)
    /\ Len(unique_places) > 5
    /\ Len(searched_places) = 5
    /\ Len(UniqueTours(all_recommended_tours)) > 8
    /\ Len(UniqueTours(all_recommended_tours)) < Len(all_recommended_tours)
    /\ Len(recommendation.recommendations) = 8
    /\ recommendation.recommendations[1].price = budget_ranges[Lower(budget_range)][1]

(***************************************************************************)
(* The single-page UI (str_main.py): one script run per interaction        *)
(***************************************************************************)

MaxUiMessages == 4

\* st.session_state[key] = value
SetKey(ss, key, value) == (key :> value) @@ ss

\* del st.session_state[key] for every key not in keep
KeepKeys(ss, keep) == [k \in DOMAIN ss \cap keep |-> ss[k]]

\* {"configurable": {"thread_id": thread_id}}
ThreadConfig(thread_id) == [configurable |-> [thread_id |-> thread_id]]

\* initialize_session_state: each missing key gets its initial value
initialize_session_state(ss, uuid) ==
    LET s1 == IF "messages" \in DOMAIN ss THEN ss ELSE SetKey(ss, "messages", <<>>)
        s2 == IF "thread_id" \in DOMAIN s1 THEN s1 ELSE SetKey(s1, "thread_id", uuid)
        s3 == IF "config" \in DOMAIN s2 THEN s2
              ELSE SetKey(s2, "config", ThreadConfig(s2["thread_id"]))
    IN IF "customer_preferences" \in DOMAIN s3 THEN s3
       ELSE SetKey(s3, "customer_preferences", {})

\* Faulty variant of StartNewConsultation: the config keeps the old thread id
StartNewConsultationKeepsConfig(ss, uuid) ==
    SetKey(KeepKeys(ss, {"config"}), "thread_id", uuid)

\* The handler of the button 'Start New Consultation' of setup_sidebar, up to
\* st.rerun()
StartNewConsultation(ss, uuid) ==
    LET kept == KeepKeys(ss, {"config"})
        s1 == SetKey(kept, "thread_id", uuid)
    IN SetKey(s1, "config",
              [s1["config"] EXCEPT !.configurable.thread_id = s1["thread_id"]])

\* The prompts of the user: one with a keyword of extract_preferences_from_conversation
Prompts == {"beach", "hello"}

\* What graph.stream does in process_message: it raises, or its last event
\* ends with an AI message with content (new, or equal to the prompt), or not
StreamOutcomes == {"exception", "answer", "echo", "no_content"}

UiHuman(content) == [type |-> "human", content |-> content]

UiAI(content) == [type |-> "ai", content |-> content]

\* process_agent_response: the last AI message is appended unless its content
\* is empty or equals the content of the last message of the session
process_agent_response(msgs, outcome) ==
    LET content == IF outcome = "answer" THEN "answer" ELSE msgs[Len(msgs)].content
    IN IF outcome = "no_content" \/ msgs[Len(msgs)].content = content
       THEN msgs
       ELSE Append(msgs, UiAI(content))

\* extract_preferences_from_conversation: the interests found in the human
\* messages
extract_preferences_from_conversation(msgs) ==
    IF \E i \in 1..Len(msgs) : msgs[i].type = "human" /\ msgs[i].content = "beach"
    THEN {"beach"} ELSE {}

\* process_message(prompt)
UiProcessMessage(ss, prompt, outcome) ==
    LET with_human == Append(ss["messages"], UiHuman(prompt))
        s1 == SetKey(ss, "messages", with_human)
    IN IF outcome = "exception" THEN s1
       ELSE LET msgs == process_agent_response(with_human, outcome)
            IN SetKey(SetKey(s1, "messages", msgs), "customer_preferences",
                      extract_preferences_from_conversation(msgs))

UiFrame == UNCHANGED <<searchVars, cacheVars, webVars, raceVars, graphVars, recVars,
                       botVars, conversation_states, clock, returned>>

\* The script starts: initialize_session_state()
InitializeSessionState ==
    /\ ui_pc = "start"
    /\ \E uuid \in UUIDs \ issued_uuids :
         /\ session_state' = initialize_session_state(session_state, uuid)
         /\ issued_uuids' = IF "thread_id" \in DOMAIN session_state
                            THEN issued_uuids ELSE issued_uuids \cup {uuid}
    /\ ui_pc' = "sidebar"
    /\ UNCHANGED <<rerun_by, previous_thread_id>>
    /\ UiFrame

\* setup_sidebar with the button 'Start New Consultation' pressed
NewConsultationPressed ==
    /\ ui_pc = "sidebar"
    /\ \E uuid \in UUIDs \ issued_uuids :
         /\ session_state' = StartNewConsultation(session_state, uuid)
         /\ issued_uuids' = issued_uuids \cup {uuid}
    /\ previous_thread_id' = session_state["thread_id"]
    /\ rerun_by' = "new_consultation"
    /\ ui_pc' = "start"
    /\ UiFrame

\* setup_sidebar with the button not pressed
SidebarShown ==
    /\ ui_pc = "sidebar"
    /\ ui_pc' = "main"
    /\ rerun_by' = "none"
    /\ UNCHANGED <<session_state, previous_thread_id, issued_uuids>>
    /\ UiFrame

\* The value of pending_message when it is a text
PendingText(text) == [type |-> "str", text |-> text]

HasPending(ss) == "pending_message" \in DOMAIN ss /\ ss["pending_message"] # None

\* main(): the pending message of a quick start button is processed
ProcessPending ==
    /\ ui_pc = "main"
    /\ HasPending(session_state)
    /\ \E outcome \in StreamOutcomes :
         session_state' = UiProcessMessage(SetKey(session_state, "pending_message", None),
                                           session_state["pending_message"].text, outcome)
    /\ ui_pc' = "start"
    /\ UNCHANGED <<rerun_by, previous_thread_id, issued_uuids>>
    /\ UiFrame

\* main(): the user sent a prompt through st.chat_input
ChatInput ==
    /\ ui_pc = "main"
    /\ ~HasPending(session_state)
    /\ Len(session_state["messages"]) + 2 <= MaxUiMessages
    /\ \E prompt \in Prompts, outcome \in StreamOutcomes :
         session_state' = UiProcessMessage(session_state, prompt, outcome)
    /\ ui_pc' = "start"
    /\ UNCHANGED <<rerun_by, previous_thread_id, issued_uuids>>
    /\ UiFrame

\* main(): a quick start button, shown while there is no message, was pressed
QuickStart ==
    /\ ui_pc = "main"
    /\ ~HasPending(session_state)
    /\ Len(session_state["messages"]) = 0
    /\ session_state' = SetKey(session_state, "pending_message", PendingText("beach"))
    /\ rerun_by' = "quick_start"
    /\ ui_pc' = "start"
    /\ UNCHANGED <<previous_thread_id, issued_uuids>>
    /\ UiFrame

InitUi ==
    /\ SearchIdle
    /\ ConvInit
    /\ AuxInit

NextUi ==
    \/ InitializeSessionState
    \/ NewConsultationPressed
    \/ SidebarShown
    \/ ProcessPending
    \/ ChatInput
    \/ QuickStart

SpecUi == InitUi /\ [][NextUi]_vars

\* C26: after initialize_session_state the thread id inside the config is the
\* thread id of the session; 'Start New Consultation' puts one fresh id,
\* different from the previous one, in both places and removes the messages
\* and the preferences, so that the next run starts with an empty history and
\* empty preferences.
C26_ThreadIdsAgree ==
    /\ ui_pc # "start" =>
          /\ {"messages", "thread_id", "config", "customer_preferences"}
                \subseteq DOMAIN session_state
          /\ session_state["config"].configurable.thread_id = session_state["thread_id"]
    /\ rerun_by = "new_consultation" =>
          /\ session_state["config"].configurable.thread_id = session_state["thread_id"]
          /\ session_state["thread_id"] # previous_thread_id
          /\ ui_pc = "start" => DOMAIN session_state = {"config", "thread_id"}
          /\ ui_pc = "sidebar" =>
                /\ session_state["messages"] = <<>>
                /\ session_state["customer_preferences"] = {}

\* 'Start New Consultation' replaced the thread of a consultation by a fresh
\* one, and the next run has initialized the session
C26_Witness ==
    /\ rerun_by = "new_consultation"
    /\ ui_pc = "sidebar"
    /\ previous_thread_id \in issued_uuids
    /\ Cardinality(issued_uuids) >= 2
    /\ session_state["thread_id"] # previous_thread_id
    /\ session_state["messages"] = <<>>

(***************************************************************************)
(* The Telegram bot (bot.py): the handlers a text message of one user can  *)
(* reach, in the order the router holds them                               *)
(***************************************************************************)

MaxUpdates == 3

\* The user of the chat; user_id is the key of conversation_contexts
BotUser == "c1"

\* message.from_user.username: <<>> is None
Usernames == { <<>>, <<"u">> }

\* message.text: a phone number, nine digits, a greeting, and /start
BotTexts ==
    { <<"+", "9", "9", "8", "9", "0", "1", "2", "3", "4", "5">>,
      <<"9", "9", "8", "9", "0", "1", "2", "3", "4">>,
      <<"h", "i">>,
      <<"/", "s", "t", "a", "r", "t">> }

\* [\d\s\-\(\)]
PhoneChars == {"0", "1", "2", "3", "4", "5", "6", "7", "8", "9", " ", "-", "(", ")"}

\* The longest run of at most 20 phone characters from position i
RECURSIVE PhoneRun(_, _, _)
PhoneRun(text, i, n) ==
    IF n < 20 /\ i + n <= Len(text) /\ text[i + n] \in PhoneChars
    THEN PhoneRun(text, i, n + 1)
    ELSE n

\* The match of r'\+?[\d\s\-\(\)]{10,20}' that starts at position p, or <<>>
PhoneMatchAt(text, p) ==
    LET first == IF text[p] = "+" THEN p + 1 ELSE p
        run == PhoneRun(text, first, 0)
    IN IF run >= 10 THEN SubSeq(text, p, first + run - 1) ELSE <<>>

\* re.search(phone_pattern, contact_text): the leftmost match, <<>> for None
PhoneMatch(text) ==
    LET starts == {p \in 1..Len(text) : PhoneMatchAt(text, p) # <<>>}
    IN IF starts = {} THEN <<>>
       ELSE PhoneMatchAt(text, CHOOSE p \in starts : \A q \in starts : p <= q)

\* The filter CommandStart(): the first word of the text is /start
IsStartCommand(text) ==
    /\ Len(text) >= 6
    /\ SubSeq(text, 1, 6) = <<"/", "s", "t", "a", "r", "t">>
    /\ IF Len(text) = 6 THEN TRUE ELSE text[7] = " "

\* What message.answer / callback.message.reply can do
BotSendOutcomes == {"sent", "raises"}

\* What the graph gives TourAgentProcessor.process_message: an AI message
\* with content, or none, or an exception
BotAgentOutcomes == {"text", "empty", "exception"}

\* conversation_contexts after TourAgentProcessor.process_message: get_config
\* creates the context, the human message is logged, and the AI message when
\* there is one
BotProcessMessage(states, user_id, user_message, uuid, now, outcome) ==
    LET created == GetOrCreate(states, user_id, uuid, now)
        human == [content |-> <<"Platform: Telegram", user_message>>,
                  type |-> "HumanMessage", timestamp |-> now + 1]
        logged == AppendMessage(created, user_id, human)
        ai == [content |-> AIMessage.content, type |-> "AIMessage", timestamp |-> now + 2]
    IN IF outcome = "text" THEN AppendMessage(logged, user_id, ai) ELSE logged

\* An entry of the log of handled updates
Handled(handler, text, username, after, calls, raised) ==
    [handler |-> handler, text |-> text, username |-> username,
     state_before |-> fsm_state, state_after |-> after,
     agent_calls |-> calls, raised |-> raised]

BotFrame == UNCHANGED <<searchVars, cacheVars, webVars, raceVars, graphVars, recVars,
                        uiVars, returned>>

\* The callback provide_contact: the request for the contact is sent and the
\* state is set
provide_contact_handler ==
    /\ Len(bot_log) < MaxUpdates
    /\ \E send \in BotSendOutcomes :
         LET after == IF send = "sent" THEN "waiting_for_contact" ELSE fsm_state
         IN /\ fsm_state' = after
            /\ bot_log' = Append(bot_log, Handled("provide_contact_handler", <<>>, <<>>,
                                                  after, 0, send = "raises"))
    /\ UNCHANGED <<conversation_states, issued_uuids, clock>>
    /\ BotFrame

\* @router.message(CommandStart()), the first message handler of the router:
\* the welcome text is sent, in every state
command_start_handler ==
    /\ Len(bot_log) < MaxUpdates
    /\ \E text \in BotTexts, username \in Usernames, send \in BotSendOutcomes :
         /\ IsStartCommand(text)
         /\ bot_log' = Append(bot_log, Handled("command_start_handler", text, username,
                                               fsm_state, 0, send = "raises"))
    /\ UNCHANGED <<fsm_state, conversation_states, issued_uuids, clock>>
    /\ BotFrame

\* @router.message(TourConsultationStates.waiting_for_contact)
handle_contact_input ==
    /\ Len(bot_log) < MaxUpdates
    /\ fsm_state = "waiting_for_contact"
    /\ \E text \in BotTexts, username \in Usernames :
         /\ ~IsStartCommand(text)
         /\ LET phone == PhoneMatch(text)
                telegram_username == IF username # <<>> THEN <<"@">> \o username ELSE <<>>
            IN IF phone = <<>> /\ telegram_username = <<>>
               THEN \E send \in BotSendOutcomes :
                      /\ bot_log' = Append(bot_log,
                             Handled("handle_contact_input", text, username,
                                     fsm_state, 0, send = "raises"))
                      /\ UNCHANGED <<fsm_state, conversation_states, issued_uuids, clock>>
               ELSE \E outcome \in BotAgentOutcomes, send \in BotSendOutcomes,
                       uuid \in UUIDs \ issued_uuids :
                      LET ai_message == <<phone, telegram_username, text>>
                          after == IF send = "sent" THEN "none" ELSE fsm_state
                      IN /\ conversation_states' =
                              BotProcessMessage(conversation_states, BotUser, ai_message,
                                                uuid, clock, outcome)
                         /\ issued_uuids' = IF BotUser \in DOMAIN conversation_states
                                            THEN issued_uuids
                                            ELSE issued_uuids \cup {uuid}
                         /\ clock' = clock + 3
                         /\ fsm_state' = after
                         /\ bot_log' = Append(bot_log,
                                Handled("handle_contact_input", text, username,
                                        after, 1, send = "raises"))
    /\ BotFrame

\* @router.message(): every other text message goes to the agent
handle_general_message ==
    /\ Len(bot_log) < MaxUpdates
    /\ fsm_state # "waiting_for_contact"
    /\ \E text \in BotTexts, username \in Usernames, outcome \in BotAgentOutcomes,
          send \in BotSendOutcomes, uuid \in UUIDs \ issued_uuids :
         /\ ~IsStartCommand(text)
         /\ conversation_states' =
               BotProcessMessage(conversation_states, BotUser, text, uuid, clock, outcome)
         /\ issued_uuids' = IF BotUser \in DOMAIN conversation_states
                            THEN issued_uuids
                            ELSE issued_uuids \cup {uuid}
         /\ clock' = clock + 3
         /\ bot_log' = Append(bot_log, Handled("handle_general_message", text, username,
                                               fsm_state, 1, send = "raises"))
    /\ UNCHANGED fsm_state
    /\ BotFrame

InitBot ==
    /\ SearchIdle
    /\ ConvInit
    /\ AuxInit

NextBot ==
    \/ provide_contact_handler
    \/ command_start_handler
    \/ handle_contact_input
    \/ handle_general_message

SpecBot == InitBot /\ [][NextBot]_vars

\* C27: a text message received in the state waiting_for_contact that has no
\* phone-like number and comes from a user without a username leaves the state
\* as it is and does not invoke the agent; every other text message received
\* in that state invokes the agent exactly once and clears the state.
C27_ContactInput ==
    \A k \in 1..Len(bot_log) :
        LET update == bot_log[k]
        IN (update.state_before = "waiting_for_contact"
            /\ update.handler # "provide_contact_handler") =>
              IF PhoneMatch(update.text) = <<>> /\ update.username = <<>>
              THEN /\ update.state_after = "waiting_for_contact"
                   /\ update.agent_calls = 0
              ELSE /\ update.agent_calls = 1
                   /\ update.state_after = "none"

(***************************************************************************)
(* Properties of the resolver                                              *)
(***************************************************************************)

\* Every location of the list, in the order find_location_comprehensive
\* visits them: each country, then its children
RECURSIVE FlatLocations(_)
FlatLocations(locs) ==
    IF locs = <<>> THEN <<>>
    ELSE LET country == locs[Len(locs)]
         IN FlatLocations(SubSeq(locs, 1, Len(locs) - 1))
            \o << [id |-> country.id, name |-> country.name, type |-> "country"] >>
            \o [j \in 1..Len(country.children) |->
                   [id |-> country.children[j].id, name |-> country.children[j].name,
                    type |-> "city"]]

\* Some variant of the query equals some variant of the location name
EqualityMatch(query, name) == VariantSet(query) \cap VariantSet(name) # {}

\* Some variant of the query contains, or is contained in, a variant of the name
ContainmentMatch(query, name) ==
    \E sv \in VariantSet(query), lv \in VariantSet(name) :
        Contains(lv, sv) \/ Contains(sv, lv)

\* The positions of the locations matching the query by equality
EqualPositions(flat) == {k \in 1..Len(flat) : EqualityMatch(destination_place, flat[k].name)}

\* The positions of the locations of a type matching by equality or containment
MatchPositions(flat, type) ==
    {k \in 1..Len(flat) : /\ flat[k].type = type
                          /\ ContainmentMatch(destination_place, flat[k].name)}

SetMax(S) == CHOOSE x \in S : \A y \in S : y <= x

SetMin(S) == CHOOSE x \in S : \A y \in S : x <= y

SameLocation(info, loc) == info # None /\ info.id = loc.id /\ info.type = loc.type

Resolved == pc = "resolved"

\* The result does not depend on the order in which sets of variants are enumerated
OrderIndependent ==
    \A seed \in HashSeeds \ {hash_seed} :
        LET r == find_location_comprehensive(destination_place, locations, seed)
        IN /\ r.exact_match = location_result.exact_match
           /\ r.country_match = location_result.country_match
           /\ r.city_matches = location_result.city_matches

C9_Original ==
    Resolved =>
        LET flat == FlatLocations(locations)
            equal == EqualPositions(flat)
        IN Cardinality(equal) > 1
              => SameLocation(location_result.exact_match, flat[SetMin(equal)])

\* C9 amended: exact_match is the last location, in iteration order, that has
\* a variant equal to a search variant (None when there is none).
C9_LastEqualWins ==
    Resolved =>
        LET flat == FlatLocations(locations)
            equal == EqualPositions(flat)
        IN IF equal = {}
           THEN location_result.exact_match = None
           ELSE SameLocation(location_result.exact_match, flat[SetMax(equal)])

\* Several locations are equal to the query: a city and a later country
C9_Witness ==
    /\ Resolved
    /\ LET flat == FlatLocations(locations)
           equal == EqualPositions(flat)
       IN /\ Cardinality(equal) > 1
          /\ flat[SetMin(equal)].type = "city"
    /\ location_result.exact_match.type = "country"

(***************************************************************************)
(* Properties of the cascade                                               *)
(***************************************************************************)

Done == pc = "done"

\* The place of a request's strategy in the cascade
StrategyRank(tag) ==
    CASE tag = "exact_match" -> 1
      [] tag = "country_fallback_from_city" -> 2
      [] tag = "cities_in_country" -> 3
      [] tag = "similar_city" -> 4
      [] tag = "country_match_cities" -> 5
      [] OTHER -> 6

\* The requests the strategies issued (not those of the suggestions, nor the
\* search without destination)
CascadeRequests == {i \in 1..Len(requests) : StrategyRank(requests[i][1]) <= 5}

RequestsOf(tag) == {i \in 1..Len(requests) : requests[i][1] = tag}

ProducedTours == {i \in CascadeRequests : HasTours(responses[i])}

\* C1: on every branch that returns tours, no returned tour costs more than a
\* given budget_max or differs from a given duration_days by more than 2 days.
C1_FiltersRespected ==
    (Done /\ result.status = "success") =>
        /\ budget_max # NoInt
              => \A k \in 1..Len(result.tours) :
                    result.tours[k].price_set => result.tours[k].price <= budget_max[1]
        /\ duration_days # NoInt
              => \A k \in 1..Len(result.tours) :
                    result.tours[k].days_set
                        => Abs(result.tours[k].days - duration_days[1]) <= 2

\* C22: in a success result of a destination search, tours is the first 10
\* elements, in order, of the filtered tour list, count is the length of the
\* whole filtered list and has_more is true exactly when count exceeds 10; so
\* the number of returned tours is min(count, 10).
C22_FirstTenOfFiltered ==
    (Done /\ destination_place # <<>> /\ result.status = "success") =>
        LET filtered == FilteredTours(tours_found, budget_max, duration_days)
        IN /\ result.count = Len(filtered)
           /\ Len(result.tours) = (IF result.count <= 10 THEN result.count ELSE 10)
           /\ \A k \in 1..Len(result.tours) : result.tours[k] = filtered[k]
           /\ result.has_more <=> result.count > 10

\* A budget-filtered search that kept more than 10 of the tours found
C22_Witness ==
    /\ Done /\ destination_place # <<>> /\ result.status = "success"
    /\ budget_max # NoInt
    /\ result.count > 10
    /\ result.count < Len(tours_found)
    /\ Len(result.tours) = 10
    /\ result.has_more

ExactCity ==
    /\ location_result # None
    /\ location_result.exact_match # None
    /\ location_result.exact_match.type = "city"

ExactCountry ==
    /\ location_result # None
    /\ location_result.exact_match # None
    /\ location_result.exact_match.type = "country"

\* C2: when the destination is an exactly matched city whose own search
\* returned no tours or failed, the second request is the search of its
\* parent country, and no no_tours_found result is returned without it.
C2_ParentCountryTried ==
    /\ (ExactCity /\ pc \notin {"call", "s1", "s2"} /\ ~HasTours(responses[1]))
          => /\ Len(requests) >= 2
             /\ requests[1] = <<"exact_match", location_result.exact_match.id>>
             /\ requests[2] = <<"country_fallback_from_city",
                                location_result.exact_match.country_id>>
    /\ (ExactCity /\ Done /\ result.status = "no_tours_found")
          => \E i \in 1..Len(requests) :
                requests[i] = <<"country_fallback_from_city",
                                location_result.exact_match.country_id>>

\* The city had no tours, its parent country was searched, nothing was found
C2_Witness ==
    /\ ExactCity
    /\ Done
    /\ result.status = "no_tours_found"
    /\ responses[1].success
    /\ responses[1].count = 0
    /\ requests[2][1] = "country_fallback_from_city"

\* The search_strategy a request's strategy reports
StrategyName(i) ==
    IF requests[i][1] = "exact_match"
    THEN (IF location_result.exact_match.type = "city"
          THEN "exact_match_city" ELSE "exact_match_country")
    ELSE requests[i][1]

\* C3: the strategies run in one fixed order; a strategy issues requests only
\* if every earlier strategy produced no tours; the result names the first
\* strategy that produced tours.
C3_FixedOrder ==
    /\ \A i, j \in 1..Len(requests) :
          i < j => StrategyRank(requests[i][1]) <= StrategyRank(requests[j][1])
    /\ \A i \in 1..Len(requests), j \in CascadeRequests :
          StrategyRank(requests[i][1]) < StrategyRank(requests[j][1])
              => ~HasTours(responses[i])
    /\ (Done /\ destination_place # <<>>)
          => IF ProducedTours = {}
             THEN result.status = "no_tours_found"
             ELSE /\ result.status = "success"
                  /\ result.search_strategy = StrategyName(SetMin(ProducedTours))

\* The fourth strategy produced the tours after the first two found none
C3_Witness ==
    /\ Done
    /\ destination_place # <<>>
    /\ result.status = "success"
    /\ result.search_strategy = "similar_city"
    /\ Len(requests) >= 3
    /\ requests[1][1] = "exact_match"
    /\ requests[2][1] = "country_fallback_from_city"

\* C5 as stated: the candidate-city fallback runs only when the destination
\* has no exact match.
C5_Original ==
    RequestsOf("similar_city") # {} => location_result.exact_match = None

\* C5 amended: the candidate-city fallback runs whenever every earlier
\* strategy found no tours and city_matches is not empty, also when the
\* destination has an exact match; it searches at most three cities of
\* city_matches, in match order, and stops at the first that returns a tour.
C5_CandidateCities ==
    /\ Cardinality(RequestsOf("similar_city")) <= 3
    /\ \A i \in RequestsOf("similar_city") :
          LET k == Cardinality({j \in RequestsOf("similar_city") : j <= i})
          IN /\ k <= Len(location_result.city_matches)
             /\ requests[i][2] = location_result.city_matches[k].id
             /\ \A j \in 1..(i - 1) : ~HasTours(responses[j])
    /\ (pc \in {"s5", "suggest", "finish", "done"} /\ location_result # None)
          => LET earlier == {i \in 1..Len(requests) : StrategyRank(requests[i][1]) < 4}
                 tried == RequestsOf("similar_city")
             IN IF (\E i \in earlier : HasTours(responses[i]))
                   \/ location_result.city_matches = <<>>
                THEN tried = {}
                ELSE \/ \E i \in tried : HasTours(responses[i])
                     \/ Cardinality(tried) = Min(3, Len(location_result.city_matches))

\* Four cities match; the third one searched has tours, the fourth is never searched
C5_Witness ==
    /\ Done
    /\ destination_place # <<>>
    /\ Len(location_result.city_matches) >= 4
    /\ Cardinality(RequestsOf("similar_city")) = 3
    /\ HasTours(responses[SetMax(RequestsOf("similar_city"))])
    /\ result.search_strategy = "similar_city"

\* The tours of the responses at the given positions, concatenated in order
RECURSIVE ToursOf(_, _)
ToursOf(resps, positions) ==
    IF positions = {} THEN <<>>
    ELSE LET last == SetMax(positions)
         IN ToursOf(resps, positions \ {last})
            \o (IF HasTours(resps[last]) THEN resps[last].tours ELSE <<>>)

C7_Original ==
    (Done /\ destination_place # <<>> /\ ProducedTours = {}) =>
        /\ result.status = "no_tours_found"
        /\ result.count = 0
        /\ result.tours = <<>>
        /\ result.suggestions = PopularDestinations

\* C7 amended: when no strategy finds a tour the result is no_tours_found with
\* count 0, no tours and a non-empty list of at most 6 suggestions: names taken
\* from the location result (for an exactly matched city, other cities of its
\* country or the country itself), and the canned popular destinations exactly
\* when the location result yields no name.
C7_NoToursFound ==
    (Done /\ destination_place # <<>> /\ ProducedTours = {}) =>
        /\ result.status = "no_tours_found"
        /\ result.count = 0
        /\ result.tours = <<>>
        /\ result.suggestions # <<>>
        /\ Len(result.suggestions) <= 6
        /\ (result.suggestions = PopularDestinations)
              <=> (LocationSuggestions(location_result) = <<>>)
        /\ (location_result.exact_match = None /\ location_result.country_match = None
            /\ location_result.city_matches = <<>>)
              => result.suggestions = PopularDestinations
        /\ ExactCity
              => \A k \in 1..Len(result.suggestions) :
                    \/ result.suggestions[k] = location_result.exact_match.country
                    \/ \E c \in 1..Len(location_result.all_countries) :
                          \E m \in 1..Len(location_result.all_countries[c].cities) :
                              /\ location_result.all_countries[c].cities[m].name
                                    = result.suggestions[k]
                              /\ result.suggestions[k] # location_result.exact_match.name

\* A tour passes the filters search_tours applies for its arguments
PassesFilters(t) ==
    /\ Truthy(budget_max) => (t.price_set /\ t.price <= budget_max[1])
    /\ Truthy(duration_days) => (t.days_set /\ Abs(t.days - duration_days[1]) <= 2)

\* C24: once a strategy has returned tours no later strategy issues a request,
\* whatever the filters do to those tours: the result is a success, and when
\* no tour of that strategy passes the filters it is a success with count 0
\* and no tours, not no_tours_found.
C24_FiltersAfterCascade ==
    (Done /\ destination_place # <<>> /\ ProducedTours # {}) =>
        LET first == SetMin(ProducedTours)
        IN /\ \A i \in CascadeRequests :
                 StrategyRank(requests[i][1]) <= StrategyRank(requests[first][1])
           /\ tours_found # <<>>
           /\ result.status = "success"
           /\ result.search_strategy = StrategyName(first)
           /\ (\A k \in 1..Len(tours_found) : ~PassesFilters(tours_found[k]))
                 => (result.count = 0 /\ result.tours = <<>>)

\* The exact match returned tours, the budget filter removed them all, and
\* the candidate cities that strategy 4 would have searched were left alone
C24_Witness ==
    /\ Done /\ destination_place # <<>>
    /\ Len(requests) = 1
    /\ HasTours(responses[1])
    /\ location_result.city_matches # <<>>
    /\ Truthy(budget_max)
    /\ result.status = "success"
    /\ result.count = 0
    /\ result.tours = <<>>

\* The positions of the cities of a country, among its first n, whose name
\* differs from the given one
OtherCityPositions(country, n, name) ==
    { m \in 1..Len(country.cities) : m <= n /\ country.cities[m].name # name }

\* C23: every no_tours_found result has between 1 and 6 suggestions. For an
\* exactly matched city they are the other cities of its country, or the
\* country name when there is none; else, for a matched country, its first
\* cities; else the substring-matched cities followed by their countries;
\* and the canned popular destinations whenever these rules give no name.
C23_NoToursSuggestions ==
    (Done /\ destination_place # <<>> /\ result.status = "no_tours_found") =>
        LET lr == location_result
            sg == result.suggestions
        IN /\ sg # <<>>
           /\ Len(sg) <= 6
           /\ IF ExactCity
              THEN LET city == lr.exact_match
                       own == CHOOSE c \in 1..Len(lr.all_countries) :
                                  lr.all_countries[c].id = city.country_id
                       others == OtherCityPositions(lr.all_countries[own], 5, city.name)
                   IN IF others = {}
                      THEN sg = <<city.country>>
                      ELSE /\ Len(sg) = Cardinality(others)
                           /\ \A k \in 1..Len(sg) :
                                 \E m \in others :
                                    /\ sg[k] = lr.all_countries[own].cities[m].name
                                    /\ Cardinality({l \in others : l < m}) = k - 1
              ELSE IF lr.country_match # None /\ lr.country_match.cities # <<>>
              THEN /\ Len(sg) = Min(5, Len(lr.country_match.cities))
                   /\ \A k \in 1..Len(sg) : sg[k] = lr.country_match.cities[k].name
              ELSE IF lr.country_match = None /\ lr.city_matches # <<>>
              THEN /\ \A k \in 1..Min(4, Len(lr.city_matches)) :
                         sg[k] = lr.city_matches[k].name
                   /\ \A k \in (Min(4, Len(lr.city_matches)) + 1)..Len(sg) :
                         \E m \in 1..Min(2, Len(lr.city_matches)) :
                             sg[k] = lr.city_matches[m].country
                   /\ \A m \in 1..Min(2, Len(lr.city_matches)) :
                         \E k \in 1..Len(sg) : sg[k] = lr.city_matches[m].country
                   /\ \A k, l \in (Min(4, Len(lr.city_matches)) + 1)..Len(sg) :
                         sg[k] = sg[l] => k = l
              ELSE sg = PopularDestinations

\* No tour was found for an exactly matched city, and another city of its
\* country is suggested
C23_Witness ==
    /\ Done /\ destination_place # <<>> /\ result.status = "no_tours_found"
    /\ ExactCity
    /\ result.suggestions # PopularDestinations
    /\ result.suggestions # <<location_result.exact_match.country>>

\* No tour was found for a query that matched cities by substring only; the
\* cities and their country are suggested
C23_WitnessSubstring ==
    /\ Done /\ destination_place # <<>> /\ result.status = "no_tours_found"
    /\ location_result.exact_match = None
    /\ location_result.country_match = None
    /\ location_result.city_matches # <<>>
    /\ Len(result.suggestions) > Len(location_result.city_matches)

\* Strategies ran, none found a tour, and the canned list is suggested
C7_Witness ==
    /\ Done
    /\ result.status = "no_tours_found"
    /\ Len(requests) >= 2
    /\ result.suggestions = PopularDestinations

(***************************************************************************)
(* Properties of the conversation manager                                  *)
(***************************************************************************)

\* C10: after any sequence of get_or_create_thread_id, get_config and
\* add_message calls, every conversation id has one context, every call for an
\* id returned the thread id stored in its context, and no two conversation
\* ids share a thread id.
C10_ThreadIds ==
    /\ \A c \in ConversationIds :
          returned[c] # <<>> => c \in DOMAIN conversation_states
    /\ \A c \in DOMAIN conversation_states :
          \A i \in 1..Len(returned[c]) :
              returned[c][i] = conversation_states[c].thread_id
    /\ \A c \in ConversationIds :
          \A i, j \in 1..Len(returned[c]) : returned[c][i] = returned[c][j]
    /\ \A c1, c2 \in DOMAIN conversation_states :
          c1 # c2 => conversation_states[c1].thread_id # conversation_states[c2].thread_id

\* One conversation was asked for its thread id twice with a message logged,
\* while another conversation was created by add_message
C10_Witness ==
    \E c1, c2 \in DOMAIN conversation_states :
        /\ c1 # c2
        /\ Len(returned[c1]) >= 2
        /\ Len(conversation_states[c1].messages) >= 1
        /\ returned[c2] = <<>>
        /\ Len(conversation_states[c2].messages) >= 1

\* The context of conversation c is kept by a step: same thread id, same
\* creation timestamp, and the old message log is a prefix of the new one
ContextKept(c) ==
    /\ c \in DOMAIN conversation_states'
    /\ conversation_states'[c].thread_id = conversation_states[c].thread_id
    /\ conversation_states'[c].created_at = conversation_states[c].created_at
    /\ Len(conversation_states'[c].messages) >= Len(conversation_states[c].messages)
    /\ SubSeq(conversation_states'[c].messages, 1, Len(conversation_states[c].messages))
           = conversation_states[c].messages

\* C11: no call of the conversation manager removes or replaces a context: the
\* set of conversation ids only grows, every context keeps its thread id and
\* its creation timestamp, and its message log changes only by appending.
C11_ContextsOnlyGrow ==
    [][\A c \in DOMAIN conversation_states : ContextKept(c)]_vars

\* A context that was created first and then logged two messages, next to a
\* context that was created after it
C11_Witness ==
    \E c1, c2 \in DOMAIN conversation_states :
        /\ c1 # c2
        /\ conversation_states[c1].created_at < conversation_states[c2].created_at
        /\ Len(conversation_states[c1].messages) >= 2
        /\ conversation_states[c1].messages[1].timestamp
              > conversation_states[c1].created_at
        /\ conversation_states[c1].messages[2].timestamp
              > conversation_states[c2].created_at

(***************************************************************************)
(* Properties of the cached location lists                                 *)
(***************************************************************************)

\* The call fetched the list: it issued a request that was answered with
\* HTTP 200 and success=true
SuccessfulFetch(call) ==
    /\ call.requested
    /\ call.reply.kind = "http"
    /\ call.reply.status_code = 200
    /\ call.reply.success

\* C12: once a call of a getter has fetched the list (HTTP 200, success=true),
\* every later call of that getter issues no request and returns the fetched
\* list.
C12_CachedAfterSuccess ==
    \A i, j \in 1..Len(cache_calls) :
        ( /\ i < j
          /\ cache_calls[i].fn = cache_calls[j].fn
          /\ SuccessfulFetch(cache_calls[i]) )
        => /\ ~cache_calls[j].requested
           /\ cache_calls[j].returned = OrEmpty(DataOrDefault(cache_calls[i].reply))

(***************************************************************************)
(* Properties of the error handling of search_tours                        *)
(***************************************************************************)

FailureResult == [success |-> FALSE, tours |-> <<>>, count |-> 0]

\* C13: search_tours always returns a dictionary whose status is success,
\* no_tours_found or error, whatever the location and tours API do; an error
\* result carries no tours and count 0; and search_tours_for_location answers
\* every failed request with success=false, no tours and count 0.
C13_FailuresBecomeResults ==
    /\ Done => /\ result # Raised
               /\ result.status \in {"success", "no_tours_found", "error"}
               /\ result.status = "error" => result.tours = <<>> /\ result.count = 0
    /\ \A i \in 1..Len(responses) :
          (failures[i] /\ requests[i][1] # "all") => responses[i] = FailureResult

\* With no destination the request for all tours failed, and search_tours
\* returned the error dictionary
C13_Witness ==
    /\ Done
    /\ destination_place = <<>>
    /\ Len(failures) = 1
    /\ failures[1]
    /\ result.status = "error"

(***************************************************************************)
(* Properties of the webhook handler                                       *)
(***************************************************************************)

\* The step handles a webhook request whose payload extract_message_info accepts
AcceptedEvent ==
    /\ handled' = handled + 1
    /\ extract_message_info(webhook_data') # None

\* The step logged an AI message in the context of conversation c
AIMessageLogged(c) ==
    LET messages == conversation_states'[c].messages
    IN /\ messages # <<>>
       /\ messages[Len(messages)].type = "AIMessage"
       /\ messages[Len(messages)].timestamp >= clock

\* C14: handling an event that extract_message_info accepts, with or without a
\* sender object, makes one send_message call for the event's conversation:
\* with the agent's reply when the agent returned text, with the fallback text
\* otherwise.
C14_AcceptedEventAnswered ==
    [][AcceptedEvent =>
         LET c == extract_message_info(webhook_data').conversation_id
         IN /\ Len(sent_messages') = Len(sent_messages) + 1
            /\ sent_messages'[Len(sent_messages')].conversation_id = c
            /\ c \in DOMAIN conversation_states'
            /\ IF AIMessageLogged(c)
               THEN sent_messages'[Len(sent_messages')].content = "ai_response"
               ELSE sent_messages'[Len(sent_messages')].content = "fallback"]_vars

(***************************************************************************)
(* Properties of normalize_and_transliterate                               *)
(***************************************************************************)

\* The keys of the table whose value is v
KeysOf(v) ==
    { TRANSLITERATION_MAP[i][1] : i \in { j \in 1..Len(TRANSLITERATION_MAP) :
                                            TRANSLITERATION_MAP[j][2] = v } }

\* The values the table gives for key k
ValuesOf(k) ==
    { TRANSLITERATION_MAP[i][2] : i \in { j \in 1..Len(TRANSLITERATION_MAP) :
                                            TRANSLITERATION_MAP[j][1] = k } }

\* find_location_comprehensive called normalize_and_transliterate on the query
Normalized == pc = "resolved" /\ locations # <<>>

\* C15: normalize_and_transliterate returns 1 to 3 distinct strings: the
\* lower-cased, trimmed input, the table's value for it when it is a key, a key
\* that maps to it when it is a value, and nothing else.
C15_Variants ==
    Normalized =>
        LET n == Strip(Lower(destination_place))
            elems == { variants[i] : i \in 1..Len(variants) }
        IN /\ Len(variants) \in 1..3
           /\ Cardinality(elems) = Len(variants)
           /\ n \in elems
           /\ ValuesOf(n) \subseteq elems
           /\ KeysOf(n) # {} => KeysOf(n) \cap elems # {}
           /\ elems \subseteq {n} \cup ValuesOf(n) \cup KeysOf(n)
           /\ Cardinality(elems \ ({n} \cup ValuesOf(n))) <= 1

\* The query is a value of the table that two keys map to; the list holds it
\* and one of the two keys
C15_Witness ==
    /\ Normalized
    /\ Cardinality(KeysOf(Strip(Lower(destination_place)))) = 2
    /\ Len(variants) = 2

\* The payload is a message_created event whose first message is incoming and
\* has content left after trimming
IncomingMessageEvent(data) ==
    /\ data.event \in {"message_created", "automation_event.message_created"}
    /\ data.messages # <<>>
    /\ \/ data.messages[1].message_type = [kind |-> "int", n |-> 0, s |-> ""]
       \/ data.messages[1].message_type = [kind |-> "str", n |-> 0, s |-> "incoming"]
    /\ \E i \in 1..Len(data.messages[1].content) : data.messages[1].content[i] # " "

\* C17: the handler invokes the agent only for message_created events whose
\* first message is incoming with non-empty content; every other event is
\* answered 'ignored' and creates no context, invokes no agent and sends no
\* message.
C17_OnlyIncomingProcessed ==
    [][handled' = handled + 1 =>
         /\ agent_calls' # agent_calls => IncomingMessageEvent(webhook_data')
         /\ ~IncomingMessageEvent(webhook_data') =>
               /\ http_response'.status = "ignored"
               /\ conversation_states' = conversation_states
               /\ agent_calls' = agent_calls
               /\ sent_messages' = sent_messages]_vars

\* The service delivered one reply in a conversation, and the message_created
\* event of an outgoing message of that conversation was then ignored
C17_Witness ==
    /\ webhook_data # None
    /\ webhook_data.event = "message_created"
    /\ webhook_data.messages # <<>>
    /\ webhook_data.messages[1].message_type = [kind |-> "int", n |-> 1, s |-> ""]
    /\ webhook_data.messages[1].content = <<"h", "i">>
    /\ http_response.status = "ignored"
    /\ IdStr(webhook_data.id) \in DOMAIN conversation_states
    /\ Len(agent_calls) = 1
    /\ Len(sent_messages) = 1
    /\ sent_messages[1].delivered
    /\ sent_messages[1].conversation_id = IdStr(webhook_data.id)

\* C18: a payload without a conversation id is rejected by
\* extract_message_info: the event is ignored and no context is created.
C18_NoIdIgnored ==
    [][(handled' = handled + 1 /\ webhook_data'.id = NoId) =>
         /\ extract_message_info(webhook_data') = None
         /\ http_response'.status = "ignored"
         /\ conversation_states' = conversation_states]_vars

(***************************************************************************)
(* Properties of concurrent webhook requests                               *)
(***************************************************************************)

\* C16: when two requests for the same, previously unseen conversation id have
\* both finished, whatever the interleaving of their steps, they hold the same
\* thread id, the conversation has its context, and every entry either request
\* logged is in the context's message log.
C16_SameThreadUnderInterleaving ==
    \A r1, r2 \in Requests :
        ( /\ r1 # r2
          /\ req_conv[r1] = req_conv[r2]
          /\ req_pc[r1] = "done"
          /\ req_pc[r2] = "done" )
        => /\ req_thread[r1] = req_thread[r2]
           /\ req_conv[r1] \in DOMAIN conversation_states
           /\ \A r \in {r1, r2} : \A i \in 1..Len(req_logged[r]) :
                 \E k \in 1..Len(conversation_states[req_conv[r]].messages) :
                     conversation_states[req_conv[r]].messages[k] = req_logged[r][i]

(***************************************************************************)
(* Properties of the agent graph                                           *)
(***************************************************************************)

LastStep == path[Len(path)]

\* C19: the first node of a run is the assistant; after an assistant step the
\* run goes to the tools node exactly when the assistant's message has tool
\* calls and ends otherwise; a tools step is followed by an assistant step; so
\* a run ends only right after an assistant message without tool calls.
C19_Routing ==
    /\ path # <<>> => path[1][1] = "assistant"
    /\ \A i \in 1..(Len(path) - 1) :
          /\ path[i][1] = "assistant" => (path[i][2] /\ path[i + 1][1] = "tools")
          /\ path[i][1] = "tools" => path[i + 1][1] = "assistant"
    /\ node = "assistant" => (path = <<>> \/ LastStep[1] = "tools")
    /\ node = "route" => LastStep[1] = "assistant"
    /\ node = "tools" => LastStep = <<"assistant", TRUE>>
    /\ node = "END" => LastStep = <<"assistant", FALSE>>

\* A run that called tools once and ended after the assistant's second message
C19_Witness ==
    /\ node = "END"
    /\ path = << <<"assistant", TRUE>>, <<"tools", FALSE>>, <<"assistant", FALSE>> >>
    /\ graph_messages[Len(graph_messages)].content = "str"

\* C21: whenever the tools node raised, the update handle_tool_error
\* returned has one tool message per tool call of the last assistant message,
\* in order, each with the id of its call: every call is answered exactly once.
C21_ErrorAnswersEveryCall ==
    \A k \in 1..Len(tool_node_log) :
        LET run == tool_node_log[k]
        IN run.raised =>
             /\ Len(run.messages) = Len(run.tool_calls)
             /\ \A i \in 1..Len(run.tool_calls) :
                   /\ run.messages[i].tool_call_id = run.tool_calls[i].id
                   /\ Cardinality({ j \in 1..Len(run.messages) :
                          run.messages[j].tool_call_id = run.tool_calls[i].id }) = 1
             /\ \A j \in 1..Len(run.messages) :
                   \E i \in 1..Len(run.tool_calls) :
                       run.messages[j].tool_call_id = run.tool_calls[i].id

\* The tools node raised on an assistant message with two tool calls
C21_Witness ==
    \E k \in 1..Len(tool_node_log) :
        /\ tool_node_log[k].raised
        /\ Len(tool_node_log[k].tool_calls) = 2
        /\ Len(tool_node_log[k].messages) = 2

\* The result has tool calls or content with text in it
HasOutput(res) == res.tool_calls \/ res.content \in {"str", "list_text"}

\* C20: each result of the model either has output (tool calls or non-empty
\* content) and is what the assistant step returns, as the only message added
\* to the state, or is empty, and then the re-prompt is appended to the local
\* message list and the model is invoked again; no re-prompt reaches the state.
C20_AssistantReturns ==
    [][(node = "assistant" /\ Len(invocations') = Len(invocations) + 1) =>
         LET res == invocations'[Len(invocations')]
         IN /\ IF HasOutput(res)
               THEN /\ node' = "route"
                    /\ graph_messages' = Append(graph_messages, res)
               ELSE /\ node' = "assistant"
                    /\ local_messages' = Append(local_messages, RePrompt)
                    /\ graph_messages' = graph_messages
            /\ \A i \in 1..Len(graph_messages') : graph_messages'[i] # RePrompt]_vars

\* The model answered with an empty string, then with a list without text,
\* then with tool calls: the step returned after two re-prompts
C20_Witness ==
    /\ node = "route"
    /\ Len(invocations) = 3
    /\ invocations[1] = Msg("ai", FALSE, "")
    /\ invocations[2] = Msg("ai", FALSE, "list_no_text")
    /\ invocations[3] = Msg("ai", TRUE, "")
    /\ local_messages = <<Msg("human", FALSE, "str"), RePrompt, RePrompt>>
    /\ graph_messages = <<Msg("human", FALSE, "str"), Msg("ai", TRUE, "")>>

====
